---- MODULE Spec2Model ----
(***************************************************************************)
(* A model of the +3DOS disk image storage engine of ha1tch/plus3          *)
(* (packages pkg/diskimg and internal): the sector map, the sector         *)
(* allocation bitmap, the block allocator, the directory table, the file   *)
(* attributes, the file header and the file handle.                        *)
(*                                                                         *)
(* Encodings.  A []bool of the source is the set of the indices that hold  *)
(* true.  An error is a string, nil for no error.  A byte buffer is a     *)
(* slice descriptor [src, from, len]: len bytes of the named source        *)
(* buffer src starting at its byte from; a sector holds the descriptor of  *)
(* the 512 bytes last stored in it.  A filename is a sequence of character *)
(* codes.                                                                  *)
(***************************************************************************)
EXTENDS Integers, Sequences, FiniteSets, TLC

VARIABLES
    allocated,    \* SectorAllocation.allocated: the sectors marked allocated
    freeBlocks,   \* FileAllocation.freeBlocks: the blocks marked free
    Tracks,       \* DiskImage.Tracks: linear sector -> the data stored in it
    Header,       \* DiskImage.Header
    Modified,     \* DiskImage.Modified
    dc,           \* the DiskCheck the client holds: its level and its errors
    Entries,      \* Directory.Entries: slot -> DirectoryEntry
    modified,     \* Directory.modified
    file,         \* the File handle the client holds (File struct), if any
    wlog,         \* history: the OpenFile of the handle and its complete writes
    last,         \* history: the last operation, its inputs, results, pre-state
    steps         \* history: number of operations performed

vars == <<allocated, freeBlocks, Tracks, Header, Modified, dc, Entries, modified, file,
          wlog, last, steps>>

----------------------------------------------------------------------------
(* Bounds of the model *)

MaxSteps == 3        \* operations per behaviour, allocator level and sector map
MaxDirSteps == 3     \* operations per behaviour, directory level
MaxFileSteps == 4    \* operations per behaviour, file level

----------------------------------------------------------------------------
(* Program constants *)

TracksPerSide == 40
SectorsPerTrack == 9
BytesPerSector == 512
SidesPerDisk == 1
BlockSize == 1024
MaxBlocks == 256
BlocksPerDir == 2
ReservedBlocks == 1
MaxDirectoryEntries == 64
DirectoryTrack == 0
DirectorySector == 1
DirectoryEntrySize == 32
Uint8 == 256

nil == "nil"

\* F of the value of e, e being computed once
With(e, F(_)) == CHOOSE r \in {F(x) : x \in {e}} : TRUE

\* NewDiskImage: totalSectors := int(TracksNum) * int(SidesNum) * SectorsPerTrack
TotalSectors == TracksPerSide * SidesPerDisk * SectorsPerTrack

\* newFileAllocation: sectorsPerBlock := BlockSize / BytesPerSector
sectorsPerBlock == BlockSize \div BytesPerSector

\* newFileAllocation: totalBlocks is computed in uint8 arithmetic,
\* (TracksNum * SidesNum * uint8(SectorsPerTrack)) / uint8(sectorsPerBlock)
totalBlocks ==
    (((TracksPerSide % Uint8) * (SidesPerDisk % Uint8) * (SectorsPerTrack % Uint8)) % Uint8)
        \div (sectorsPerBlock % Uint8)

\* newFileAllocation: fa.blockMap[i] = i * sectorsPerBlock
blockMap(i) == i * sectorsPerBlock

\* newFileAllocation: every block free but the first ReservedBlocks+BlocksPerDir
newFileAllocation ==
    {i \in 0..(totalBlocks - 1) : ~(i < ReservedBlocks + BlocksPerDir)}

\* newSectorAllocation: make([]bool, totalSectors), all false
newSectorAllocation == {}

----------------------------------------------------------------------------
(* internal.SectorMap *)

\* sm.TracksPerSide * sm.SectorsPerTrack * sm.SidesPerDisk
maxSectors == TracksPerSide * SectorsPerTrack * SidesPerDisk

\* The result is clamped into the range instead of being refused.
LinearToPhysicalClamped(linear) ==
    LET l == IF linear < 0 THEN 0
             ELSE IF linear >= maxSectors THEN maxSectors - 1
             ELSE linear
        sectorsPerSide == TracksPerSide * SectorsPerTrack
        remainder == l % sectorsPerSide
    IN [err |-> nil, track |-> remainder \div SectorsPerTrack,
        sector |-> remainder % SectorsPerTrack, side |-> l \div sectorsPerSide]

LinearToPhysical(linear) ==
    IF linear < 0 \/ linear >= maxSectors
    THEN [err |-> "sector number out of range", track |-> 0, sector |-> 0, side |-> 0]
    ELSE LET sectorsPerSide == TracksPerSide * SectorsPerTrack
             remainder == linear % sectorsPerSide
         IN [err |-> nil, track |-> remainder \div SectorsPerTrack,
             sector |-> remainder % SectorsPerTrack, side |-> linear \div sectorsPerSide]

PhysicalToLinear(track, sector, side) ==
    IF track < 0 \/ track >= TracksPerSide THEN [err |-> "track out of range", linear |-> 0]
    ELSE IF sector < 0 \/ sector >= SectorsPerTrack THEN [err |-> "sector out of range", linear |-> 0]
    ELSE IF side < 0 \/ side >= SidesPerDisk THEN [err |-> "side out of range", linear |-> 0]
    ELSE [err |-> nil,
          linear |-> (side * TracksPerSide * SectorsPerTrack) + (track * SectorsPerTrack) + sector]

GetTrackOffset(track, side) ==
    IF track < 0 \/ track >= TracksPerSide THEN [err |-> "track out of range", offset |-> 0]
    ELSE IF side < 0 \/ side >= SidesPerDisk THEN [err |-> "side out of range", offset |-> 0]
    ELSE [err |-> nil,
          offset |-> (side * TracksPerSide + track) * SectorsPerTrack * BytesPerSector]

GetSectorOffset(track, sector, side) ==
    LET t == GetTrackOffset(track, side) IN
    IF t.err # nil THEN t
    ELSE IF sector < 0 \/ sector >= SectorsPerTrack
         THEN [err |-> "sector out of range", offset |-> 0]
         ELSE [err |-> nil, offset |-> t.offset + sector * BytesPerSector]

----------------------------------------------------------------------------
(* SectorAllocation *)

\* A single loop that checks and marks sector by sector: the sectors before
\* the first allocated one stay marked when the call fails.
AllocateSectorsPartial(alloc, start, count) ==
    IF start < 0 \/ start + count > TotalSectors
    THEN [err |-> "sector range out of bounds", allocated |-> alloc]
    ELSE IF \E i \in start..(start + count - 1) : i \in alloc
         THEN LET first == CHOOSE i \in start..(start + count - 1) :
                               i \in alloc /\ \A j \in start..(i - 1) : j \notin alloc
              IN [err |-> "sector already allocated",
                  allocated |-> alloc \cup (start..(first - 1))]
         ELSE [err |-> nil, allocated |-> alloc \cup (start..(start + count - 1))]

AllocateSectors(alloc, start, count) ==
    IF start < 0 \/ start + count > TotalSectors
    THEN [err |-> "sector range out of bounds", allocated |-> alloc]
    ELSE IF \E i \in start..(start + count - 1) : i \in alloc
         THEN [err |-> "sector already allocated", allocated |-> alloc]
         ELSE [err |-> nil, allocated |-> alloc \cup (start..(start + count - 1))]

\* The loop stops one sector early: the last sector of the range stays as
\* it was.
FreeSectorsShort(alloc, start, count) ==
    IF start < 0 \/ start + count > TotalSectors
    THEN [err |-> "sector range out of bounds", allocated |-> alloc]
    ELSE [err |-> nil, allocated |-> alloc \ (start..(start + count - 2))]

\* A sector that is not allocated is refused instead of being left free.
FreeSectorsStrict(alloc, start, count) ==
    IF start < 0 \/ start + count > TotalSectors
    THEN [err |-> "sector range out of bounds", allocated |-> alloc]
    ELSE IF \E i \in start..(start + count - 1) : i \notin alloc
         THEN [err |-> "sector not allocated", allocated |-> alloc]
         ELSE [err |-> nil, allocated |-> alloc \ (start..(start + count - 1))]

FreeSectors(alloc, start, count) ==
    IF start < 0 \/ start + count > TotalSectors
    THEN [err |-> "sector range out of bounds", allocated |-> alloc]
    ELSE [err |-> nil, allocated |-> alloc \ (start..(start + count - 1))]

\* GetFreeSpace: the number of entries of the bitmap that are false
GetFreeSpace(alloc) == Cardinality({i \in 0..(TotalSectors - 1) : i \notin alloc})

IsSectorAllocated(alloc, sector) ==
    IF sector < 0 \/ sector >= TotalSectors
    THEN [err |-> "sector number out of range", allocated |-> FALSE]
    ELSE [err |-> nil, allocated |-> sector \in alloc]

----------------------------------------------------------------------------
(* FileAllocation *)

(* A loop of the source is run iteration by iteration: xStep is one        *)
(* iteration on the loop's variables (done: the loop has returned), and    *)
(* xLoop(st, ..., lo, hi) runs the iterations lo..hi-1 in order, split in  *)
(* halves so that the evaluation stays shallow.                            *)

\* FreeBlocks: one iteration, on blocks[i]
freeBlocksStep(st, blocks, i) ==
    LET block == blocks[i] IN
    IF block >= totalBlocks
    THEN [st EXCEPT !.err = "invalid block number", !.done = TRUE]
    ELSE With(FreeSectors(st.allocated, blockMap(block), sectorsPerBlock), LAMBDA r :
         IF r.err # nil
         THEN [st EXCEPT !.freeBlocks = @ \cup {block}, !.err = r.err, !.done = TRUE]
         ELSE [st EXCEPT !.freeBlocks = @ \cup {block}, !.allocated = r.allocated])

RECURSIVE freeBlocksLoop(_, _, _, _)
freeBlocksLoop(st, blocks, lo, hi) ==
    IF hi <= lo \/ st.done THEN st
    ELSE IF hi = lo + 1 THEN freeBlocksStep(st, blocks, lo)
    ELSE LET mid == (lo + hi) \div 2
             s1 == freeBlocksLoop(st, blocks, lo, mid)
         IN IF s1.done THEN s1 ELSE freeBlocksLoop(s1, blocks, mid, hi)

FreeBlocks(fb, alloc, blocks) ==
    LET st == freeBlocksLoop([freeBlocks |-> fb, allocated |-> alloc, err |-> nil,
                              done |-> FALSE], blocks, 1, Len(blocks) + 1)
    IN [err |-> st.err, freeBlocks |-> st.freeBlocks, allocated |-> st.allocated]

\* A block that is not free does not end the run being counted.
findContiguousStepNoReset(st, fb, count, i) ==
    IF i \in fb
    THEN LET sb == IF st.consecutive = 0 THEN i ELSE st.startBlock
             c == st.consecutive + 1
         IN IF c = count
            THEN [consecutive |-> c, startBlock |-> sb, ret |-> sb, done |-> TRUE]
            ELSE [consecutive |-> c, startBlock |-> sb, ret |-> -1, done |-> FALSE]
    ELSE st

\* findContiguousBlocks: one iteration, on block i
findContiguousStep(st, fb, count, i) ==
    IF i \in fb
    THEN LET sb == IF st.consecutive = 0 THEN i ELSE st.startBlock
             c == st.consecutive + 1
         IN IF c = count
            THEN [consecutive |-> c, startBlock |-> sb, ret |-> sb, done |-> TRUE]
            ELSE [consecutive |-> c, startBlock |-> sb, ret |-> -1, done |-> FALSE]
    ELSE [consecutive |-> 0, startBlock |-> -1, ret |-> -1, done |-> FALSE]

RECURSIVE findContiguousLoop(_, _, _, _, _)
findContiguousLoop(st, fb, count, lo, hi) ==
    IF hi <= lo \/ st.done THEN st
    ELSE IF hi = lo + 1 THEN findContiguousStep(st, fb, count, lo)
    ELSE LET mid == (lo + hi) \div 2
             s1 == findContiguousLoop(st, fb, count, lo, mid)
         IN IF s1.done THEN s1 ELSE findContiguousLoop(s1, fb, count, mid, hi)

findContiguousBlocks(fb, count) ==
    findContiguousLoop([consecutive |-> 0, startBlock |-> -1, ret |-> -1, done |-> FALSE],
                       fb, count, 0, totalBlocks).ret

\* The scan for a free block keeps the last free block it meets.
findFreeBlockLast(fb) ==
    IF fb = {} THEN -1
    ELSE CHOOSE i \in fb : \A j \in fb : i >= j

findFreeBlock(fb) ==
    IF fb = {} THEN -1
    ELSE CHOOSE i \in fb : \A j \in fb : i <= j

\* AllocateFileSpace, contiguous branch: one iteration
allocContiguousStep(st, startBlock, i) ==
    LET block == startBlock + i
        fb1 == st.freeBlocks \ {block}
        r == AllocateSectors(st.allocated, blockMap(block), sectorsPerBlock)
    IN IF r.err # nil
       THEN LET fr == FreeBlocks(fb1, r.allocated, st.blocks)
            IN [freeBlocks |-> fr.freeBlocks, allocated |-> fr.allocated,
                blocks |-> <<>>, err |-> r.err, done |-> TRUE]
       ELSE [st EXCEPT !.freeBlocks = fb1, !.allocated = r.allocated,
                       !.blocks = Append(@, block)]

RECURSIVE allocContiguousLoop(_, _, _, _)
allocContiguousLoop(st, startBlock, lo, hi) ==
    IF hi <= lo \/ st.done THEN st
    ELSE IF hi = lo + 1 THEN allocContiguousStep(st, startBlock, lo)
    ELSE LET mid == (lo + hi) \div 2
             s1 == allocContiguousLoop(st, startBlock, lo, mid)
         IN IF s1.done THEN s1 ELSE allocContiguousLoop(s1, startBlock, mid, hi)

\* The rollback of the fragmented branch frees every block past the system
\* blocks, not just the blocks this call took.
allocFragmentedStepRollbackAll(st) ==
    LET block == findFreeBlock(st.freeBlocks) IN
    IF block < 0
    THEN LET fr == FreeBlocks(st.freeBlocks, st.allocated,
                              [i \in 1..(totalBlocks - ReservedBlocks - BlocksPerDir) |->
                                  i + ReservedBlocks + BlocksPerDir - 1])
         IN [freeBlocks |-> fr.freeBlocks, allocated |-> fr.allocated,
             blocks |-> <<>>, err |-> "no free blocks available", done |-> TRUE]
    ELSE LET fb1 == st.freeBlocks \ {block}
             r == AllocateSectors(st.allocated, blockMap(block), sectorsPerBlock)
         IN IF r.err # nil
            THEN LET fr == FreeBlocks(fb1, r.allocated, st.blocks)
                 IN [freeBlocks |-> fr.freeBlocks, allocated |-> fr.allocated,
                     blocks |-> <<>>, err |-> r.err, done |-> TRUE]
            ELSE [st EXCEPT !.freeBlocks = fb1, !.allocated = r.allocated,
                            !.blocks = Append(@, block)]

\* AllocateFileSpace, fragmented branch: one iteration
allocFragmentedStep(st) ==
    LET block == findFreeBlock(st.freeBlocks) IN
    IF block < 0
    THEN LET fr == FreeBlocks(st.freeBlocks, st.allocated, st.blocks)
         IN [freeBlocks |-> fr.freeBlocks, allocated |-> fr.allocated,
             blocks |-> <<>>, err |-> "no free blocks available", done |-> TRUE]
    ELSE LET fb1 == st.freeBlocks \ {block}
             r == AllocateSectors(st.allocated, blockMap(block), sectorsPerBlock)
         IN IF r.err # nil
            THEN LET fr == FreeBlocks(fb1, r.allocated, st.blocks)
                 IN [freeBlocks |-> fr.freeBlocks, allocated |-> fr.allocated,
                     blocks |-> <<>>, err |-> r.err, done |-> TRUE]
            ELSE [st EXCEPT !.freeBlocks = fb1, !.allocated = r.allocated,
                            !.blocks = Append(@, block)]

RECURSIVE allocFragmentedLoop(_, _, _)
allocFragmentedLoop(st, lo, hi) ==
    IF hi <= lo \/ st.done THEN st
    ELSE IF hi = lo + 1 THEN allocFragmentedStep(st)
    ELSE LET mid == (lo + hi) \div 2
             s1 == allocFragmentedLoop(st, lo, mid)
         IN IF s1.done THEN s1 ELSE allocFragmentedLoop(s1, mid, hi)

AllocStart(fb, alloc) ==
    [freeBlocks |-> fb, allocated |-> alloc, blocks |-> <<>>, err |-> nil, done |-> FALSE]

AllocResult(st) ==
    [err |-> st.err, blocks |-> st.blocks, freeBlocks |-> st.freeBlocks,
     allocated |-> st.allocated]

allocContiguous(fb, alloc, startBlock, blocksNeeded) ==
    AllocResult(allocContiguousLoop(AllocStart(fb, alloc), startBlock, 0, blocksNeeded))

allocFragmented(fb, alloc, blocksNeeded) ==
    AllocResult(allocFragmentedLoop(AllocStart(fb, alloc), 0, blocksNeeded))

\* The size limit is off by one: a request of MaxBlocks+1 blocks gets through.
AllocateFileSpaceOffByOne(fb, alloc, size) ==
    LET blocksNeeded == (size + BlockSize - 1) \div BlockSize IN
    IF blocksNeeded > MaxBlocks + 1
    THEN [err |-> "file size exceeds maximum", blocks |-> <<>>,
          freeBlocks |-> fb, allocated |-> alloc]
    ELSE LET startBlock == findContiguousBlocks(fb, blocksNeeded) IN
         IF startBlock >= 0
         THEN allocContiguous(fb, alloc, startBlock, blocksNeeded)
         ELSE allocFragmented(fb, alloc, blocksNeeded)

AllocateFileSpace(fb, alloc, size) ==
    LET blocksNeeded == (size + BlockSize - 1) \div BlockSize IN
    IF blocksNeeded > MaxBlocks
    THEN [err |-> "file size exceeds maximum", blocks |-> <<>>,
          freeBlocks |-> fb, allocated |-> alloc]
    ELSE LET startBlock == findContiguousBlocks(fb, blocksNeeded) IN
         IF startBlock >= 0
         THEN allocContiguous(fb, alloc, startBlock, blocksNeeded)
         ELSE allocFragmented(fb, alloc, blocksNeeded)

GetFreeBlocks(fb) == Cardinality(fb)

----------------------------------------------------------------------------
(* DiskImage sector access *)

\* A sector never written holds the zero bytes NewDiskImage gave its track.
ZeroSector == [src |-> "zero", from |-> 0, len |-> BytesPerSector]

\* Tracks lists the sectors whose content is not ZeroSector
SectorContent(tracks, linear) ==
    IF linear \in DOMAIN tracks THEN tracks[linear] ELSE ZeroSector

PutSector(tracks, linear, data) ==
    IF data = ZeroSector
    THEN [l \in DOMAIN tracks \ {linear} |-> tracks[l]]
    ELSE (linear :> data) @@ tracks

\* NewDiskImage: TracksPerSide*SidesPerDisk tracks of
\* BytesPerSector*SectorsPerTrack bytes each
NumTracks == TracksPerSide * SidesPerDisk

TrackLength == BytesPerSector * SectorsPerTrack

\* The place of a sector in Tracks: track trackIdx, bytes sectorStart to
\* sectorStart+BytesPerSector.  Sector offsets are multiples of
\* BytesPerSector, so the place is numbered in whole sectors.
sectorPlace(track, side, offset) ==
    LET trackIdx == track + (side * TracksPerSide)
        sectorStart == offset % TrackLength
    IN IF trackIdx >= NumTracks
       THEN [err |-> "track index out of range", at |-> 0]
       ELSE IF sectorStart + BytesPerSector > TrackLength
            THEN [err |-> "sector extends beyond track boundary", at |-> 0]
            ELSE [err |-> nil,
                  at |-> trackIdx * SectorsPerTrack + sectorStart \div BytesPerSector]

\* The track index is left out of the place: every track shares the bytes of
\* track 0.
GetSectorDataTrackZero(alloc, tracks, track, sector, side) ==
    LET l == PhysicalToLinear(track, sector, side)
        o == GetSectorOffset(track, sector, side)
    IN IF l.err # nil THEN [err |-> l.err, data |-> ZeroSector]
       ELSE IF o.err # nil THEN [err |-> o.err, data |-> ZeroSector]
       ELSE IF ~IsSectorAllocated(alloc, l.linear).allocated
            THEN [err |-> "attempting to read unallocated sector", data |-> ZeroSector]
            ELSE LET pl == sectorPlace(0, side, o.offset) IN
                 IF pl.err # nil THEN [err |-> pl.err, data |-> ZeroSector]
                 ELSE [err |-> nil, data |-> SectorContent(tracks, pl.at)]

\* An unallocated sector reads as zeroes instead of failing.
GetSectorDataZeroes(alloc, tracks, track, sector, side) ==
    LET l == PhysicalToLinear(track, sector, side)
        o == GetSectorOffset(track, sector, side)
    IN IF l.err # nil THEN [err |-> l.err, data |-> ZeroSector]
       ELSE IF o.err # nil THEN [err |-> o.err, data |-> ZeroSector]
       ELSE IF ~IsSectorAllocated(alloc, l.linear).allocated
            THEN [err |-> nil, data |-> ZeroSector]
            ELSE LET pl == sectorPlace(track, side, o.offset) IN
                 IF pl.err # nil THEN [err |-> pl.err, data |-> ZeroSector]
                 ELSE [err |-> nil, data |-> SectorContent(tracks, pl.at)]

GetSectorData(alloc, tracks, track, sector, side) ==
    LET l == PhysicalToLinear(track, sector, side)
        o == GetSectorOffset(track, sector, side)
    IN IF l.err # nil THEN [err |-> l.err, data |-> ZeroSector]
       ELSE IF o.err # nil THEN [err |-> o.err, data |-> ZeroSector]
       ELSE IF IsSectorAllocated(alloc, l.linear).err # nil
            THEN [err |-> IsSectorAllocated(alloc, l.linear).err, data |-> ZeroSector]
       ELSE IF ~IsSectorAllocated(alloc, l.linear).allocated
            THEN [err |-> "attempting to read unallocated sector", data |-> ZeroSector]
            ELSE LET pl == sectorPlace(track, side, o.offset) IN
                 IF pl.err # nil THEN [err |-> pl.err, data |-> ZeroSector]
                 ELSE [err |-> nil, data |-> SectorContent(tracks, pl.at)]

SetSectorData(alloc, tracks, track, sector, side, data) ==
    IF data.len # BytesPerSector
    THEN [err |-> "invalid sector data size", allocated |-> alloc, Tracks |-> tracks]
    ELSE LET l == PhysicalToLinear(track, sector, side)
             o == GetSectorOffset(track, sector, side)
         IN
         IF l.err # nil THEN [err |-> l.err, allocated |-> alloc, Tracks |-> tracks]
         ELSE IF o.err # nil THEN [err |-> o.err, allocated |-> alloc, Tracks |-> tracks]
         ELSE LET a == IF l.linear \notin alloc
                       THEN AllocateSectors(alloc, l.linear, 1)
                       ELSE [err |-> nil, allocated |-> alloc]
                  pl == sectorPlace(track, side, o.offset)
              IN IF a.err # nil
                 THEN [err |-> a.err, allocated |-> a.allocated, Tracks |-> tracks]
                 ELSE IF pl.err # nil
                      THEN [err |-> pl.err, allocated |-> a.allocated, Tracks |-> tracks]
                      ELSE [err |-> nil, allocated |-> a.allocated,
                            Tracks |-> PutSector(tracks, pl.at, data)]

\* Every sector of the new block receives the first sector of the old block.
defragCopyStepFirstSector(st, oldBlocks, newBlocks, i, s) ==
    LET oldSector == blockMap(oldBlocks[i])
        newSector == blockMap(newBlocks[i]) + s
        g == GetSectorData(st.allocated, st.Tracks, oldSector \div SectorsPerTrack,
                           oldSector % SectorsPerTrack, 0)
    IN IF g.err # nil
       THEN [st EXCEPT !.err = g.err, !.done = TRUE]
       ELSE LET w == SetSectorData(st.allocated, st.Tracks, newSector \div SectorsPerTrack,
                                   newSector % SectorsPerTrack, 0, g.data)
            IN IF w.err # nil
               THEN [allocated |-> w.allocated, Tracks |-> w.Tracks, err |-> w.err,
                     done |-> TRUE, wrote |-> st.wrote]
               ELSE [st EXCEPT !.allocated = w.allocated, !.Tracks = w.Tracks,
                               !.wrote = TRUE]

\* DefragmentFile: one iteration of the inner loop, sector s of old block i
defragCopyStep(st, oldBlocks, newBlocks, i, s) ==
    LET oldSector == blockMap(oldBlocks[i]) + s
        newSector == blockMap(newBlocks[i]) + s
        g == GetSectorData(st.allocated, st.Tracks, oldSector \div SectorsPerTrack,
                           oldSector % SectorsPerTrack, 0)
    IN IF g.err # nil
       THEN [st EXCEPT !.err = g.err, !.done = TRUE]
       ELSE LET w == SetSectorData(st.allocated, st.Tracks, newSector \div SectorsPerTrack,
                                   newSector % SectorsPerTrack, 0, g.data)
            IN IF w.err # nil
               THEN [allocated |-> w.allocated, Tracks |-> w.Tracks, err |-> w.err,
                     done |-> TRUE, wrote |-> st.wrote]
               ELSE [st EXCEPT !.allocated = w.allocated, !.Tracks = w.Tracks,
                               !.wrote = TRUE]

\* the iterations are numbered k = (i-1) * sectorsPerBlock + s
RECURSIVE defragCopyLoop(_, _, _, _, _)
defragCopyLoop(st, oldBlocks, newBlocks, lo, hi) ==
    IF hi <= lo \/ st.done THEN st
    ELSE IF hi = lo + 1
         THEN defragCopyStep(st, oldBlocks, newBlocks, (lo \div sectorsPerBlock) + 1,
                             lo % sectorsPerBlock)
    ELSE LET mid == (lo + hi) \div 2
             s1 == defragCopyLoop(st, oldBlocks, newBlocks, lo, mid)
         IN IF s1.done THEN s1 ELSE defragCopyLoop(s1, oldBlocks, newBlocks, mid, hi)

defragCopy(alloc, tracks, oldBlocks, newBlocks) ==
    defragCopyLoop([allocated |-> alloc, Tracks |-> tracks, err |-> nil, done |-> FALSE,
                    wrote |-> FALSE],
                   oldBlocks, newBlocks, 0, Len(oldBlocks) * sectorsPerBlock)

DefragmentFile(fb, alloc, tracks, oldBlocks) ==
    IF Len(oldBlocks) = 0
    THEN [err |-> nil, blocks |-> <<>>, freeBlocks |-> fb, allocated |-> alloc,
          Tracks |-> tracks, wrote |-> FALSE]
    ELSE LET totalSize == Len(oldBlocks) * BlockSize
             n == AllocateFileSpace(fb, alloc, totalSize)
         IN IF n.err # nil
            THEN [err |-> n.err, blocks |-> <<>>, freeBlocks |-> n.freeBlocks,
                  allocated |-> n.allocated, Tracks |-> tracks, wrote |-> FALSE]
            ELSE LET c == defragCopy(n.allocated, tracks, oldBlocks, n.blocks) IN
                 IF c.err # nil
                 THEN LET fr == FreeBlocks(n.freeBlocks, c.allocated, n.blocks)
                      IN [err |-> c.err, blocks |-> <<>>, freeBlocks |-> fr.freeBlocks,
                          allocated |-> fr.allocated, Tracks |-> c.Tracks,
                          wrote |-> c.wrote]
                 ELSE LET fr == FreeBlocks(n.freeBlocks, c.allocated, oldBlocks)
                      IN [err |-> nil, blocks |-> n.blocks, freeBlocks |-> fr.freeBlocks,
                          allocated |-> fr.allocated, Tracks |-> c.Tracks,
                          wrote |-> c.wrote]

----------------------------------------------------------------------------
(* Directory *)

Zeros(n) == [i \in 1..n |-> 0]

\* The zero value of DirectoryEntry: what a fresh Directory struct holds in
\* every slot.
ZeroEntry ==
    [Status |-> 0, Name |-> Zeros(8), Extension |-> Zeros(3), Extent |-> 0,
     Reserved1 |-> 0, Reserved2 |-> 0, RecordCount |-> 0,
     AllocationBlocks |-> Zeros(16), FirstRecord |-> 0, LogicalSize |-> 0]

Slots == 0..(MaxDirectoryEntries - 1)

\* Entries lists the slots whose entry is not ZeroEntry
EntryAt(entries, i) == IF i \in DOMAIN entries THEN entries[i] ELSE ZeroEntry

PutEntry(entries, i, e) ==
    IF e = ZeroEntry
    THEN [j \in DOMAIN entries \ {i} |-> entries[j]]
    ELSE (i :> e) @@ entries

\* A new Directory struct: every slot the zero entry
NewDirectory == <<>>

StatusDeleted == 229    \* 0xe5
StatusUnused == 0       \* 0x00
Space == 32             \* ' '
Dot == 46               \* '.'

\* strings.ToUpper on a string whose bytes are ASCII except for lone bytes of
\* 0x80 and above: such a byte is invalid UTF-8 and comes out as U+FFFD
ToUpper(str) ==
    [i \in 1..Len(str) |-> IF str[i] >= 97 /\ str[i] <= 122 THEN str[i] - 32
                           ELSE IF str[i] >= 128 THEN 65533
                           ELSE str[i]]

\* strings.Repeat(" ", n)
Spaces(n) == [i \in 1..n |-> Space]

padRight(str, length) ==
    IF Len(str) >= length THEN SubSeq(str, 1, length)
    ELSE str \o Spaces(length - Len(str))

\* strings.TrimRight(str, " ")
TrimRight(str) ==
    LET keep == {i \in 1..Len(str) : str[i] # Space}
        n == IF keep = {} THEN 0 ELSE CHOOSE i \in keep : \A j \in keep : j <= i
    IN SubSeq(str, 1, n)

\* strings.Split(filename, "."): parts[0], and parts[1] when there is one
DotsOf(str) == {i \in 1..Len(str) : str[i] = Dot}

FirstDot(str, from) ==
    LET ds == {i \in DotsOf(str) : i >= from} IN
    IF ds = {} THEN Len(str) + 1 ELSE CHOOSE i \in ds : \A j \in ds : i <= j

SplitName(filename) == SubSeq(filename, 1, FirstDot(filename, 1) - 1)

SplitExt(filename) ==
    LET d == FirstDot(filename, 1) IN
    IF d > Len(filename) THEN <<>>
    ELSE SubSeq(filename, d + 1, FirstDot(filename, d + 1) - 1)

\* The entry is created live (a user number other than 0) instead of with the
\* unused status.
NewDirectoryEntryLive(filename) ==
    IF Len(filename) = 0 THEN [err |-> "empty filename", entry |-> ZeroEntry]
    ELSE IF Len(SplitName(filename)) > 8
         THEN [err |-> "filename too long (max 8 chars)", entry |-> ZeroEntry]
    ELSE IF Len(SplitExt(filename)) > 3
         THEN [err |-> "extension too long (max 3 chars)", entry |-> ZeroEntry]
    ELSE [err |-> nil,
          entry |-> [ZeroEntry EXCEPT !.Status = 1,
                                      !.Name = padRight(ToUpper(SplitName(filename)), 8),
                                      !.Extension = padRight(ToUpper(SplitExt(filename)), 3)]]

NewDirectoryEntry(filename) ==
    IF Len(filename) = 0 THEN [err |-> "empty filename", entry |-> ZeroEntry]
    ELSE LET name == SplitName(filename)
             ext == SplitExt(filename)
         IN IF Len(name) > 8
            THEN [err |-> "filename too long (max 8 chars)", entry |-> ZeroEntry]
            ELSE IF Len(ext) > 3
                 THEN [err |-> "extension too long (max 3 chars)", entry |-> ZeroEntry]
                 ELSE [err |-> nil,
                       entry |-> [ZeroEntry EXCEPT
                                    !.Status = 0,
                                    !.Name = padRight(ToUpper(name), 8),
                                    !.Extension = IF ext # <<>>
                                                  THEN padRight(ToUpper(ext), 3)
                                                  ELSE padRight(<<>>, 3)]]

IsDeleted(de) == de.Status = StatusDeleted

IsUnused(de) == de.Status = StatusUnused

GetFilename(de) ==
    LET name == TrimRight(de.Name)
        ext == TrimRight(de.Extension)
    IN IF ext # <<>> THEN name \o <<Dot>> \o ext ELSE name

\* FindFile: the first slot, in index order, holding a live entry of that name
FindFile(entries, filename) ==
    LET up == ToUpper(filename)
        hits == {i \in Slots : /\ ~IsDeleted(EntryAt(entries, i))
                               /\ ~IsUnused(EntryAt(entries, i))
                               /\ ToUpper(GetFilename(EntryAt(entries, i))) = up}
    IN IF hits = {} THEN [err |-> "file not found", index |-> -1]
       ELSE [err |-> nil, index |-> CHOOSE i \in hits : \A j \in hits : i <= j]

AddFile(entries, filename) ==
    IF FindFile(entries, filename).err = nil
    THEN [err |-> "file already exists", Entries |-> entries, index |-> -1, modified |-> FALSE]
    ELSE LET free == {i \in Slots : IsUnused(EntryAt(entries, i))
                                    \/ IsDeleted(EntryAt(entries, i))}
         IN IF free = {}
            THEN [err |-> "directory full", Entries |-> entries, index |-> -1,
                  modified |-> FALSE]
            ELSE LET entryIndex == CHOOSE i \in free : \A j \in free : i <= j
                     n == NewDirectoryEntry(filename)
                 IN IF n.err # nil
                    THEN [err |-> n.err, Entries |-> entries, index |-> -1,
                          modified |-> FALSE]
                    ELSE [err |-> nil, Entries |-> PutEntry(entries, entryIndex, n.entry),
                          index |-> entryIndex, modified |-> TRUE]

\* The slot is zeroed for immediate reuse instead of being marked deleted.
DeleteFileZeroing(entries, filename) ==
    LET f == FindFile(entries, filename) IN
    IF f.err # nil THEN [err |-> f.err, Entries |-> entries, modified |-> FALSE]
    ELSE [err |-> nil, Entries |-> PutEntry(entries, f.index, ZeroEntry),
          modified |-> TRUE]

DeleteFile(entries, filename) ==
    LET f == FindFile(entries, filename) IN
    IF f.err # nil THEN [err |-> f.err, Entries |-> entries, modified |-> FALSE]
    ELSE [err |-> nil,
          Entries |-> PutEntry(entries, f.index,
                               [EntryAt(entries, f.index) EXCEPT !.Status = StatusDeleted]),
          modified |-> TRUE]

\* No File handle has been obtained yet
NoFile == [open |-> FALSE]

----------------------------------------------------------------------------
(* The allocator level: one FileAllocation over a new disk image *)

NoOp == [op |-> "none"]

\* The header NewDiskImage fills in; Signature and Creator hold the text that
\* is copied into them
DiskSignature == "EXTENDED CPC DSK File\r\nDisk-Info\r\n"

NewDiskHeader ==
    [Signature |-> DiskSignature, Creator |-> "plus3 utility",
     TracksNum |-> TracksPerSide, SidesNum |-> SidesPerDisk,
     TrackSize |-> BytesPerSector * SectorsPerTrack]

\* ValidationLevel
ValidationBasic == 0
ValidationStrict == 1

\* No DiskCheck has been made yet
NoDiskCheck == [held |-> FALSE, level |-> ValidationBasic, errors |-> <<>>]

ImageUnchanged == UNCHANGED <<Header, Modified>>

\* di.Modified = true in every SetSectorData that stored its data
Wrote(stored) == Modified' = (Modified \/ stored) /\ UNCHANGED Header

Snapshot == [allocated |-> allocated, freeBlocks |-> freeBlocks, Tracks |-> Tracks]

\* NewDiskImage followed by newFileAllocation(disk)
InitAlloc ==
    /\ allocated = newSectorAllocation
    /\ freeBlocks = newFileAllocation
    /\ Tracks = <<>>
    /\ Header = NewDiskHeader
    /\ Modified = TRUE
    /\ dc = NoDiskCheck
    /\ Entries = NewDirectory
    /\ modified = FALSE
    /\ file = NoFile
    /\ wlog = <<>>
    /\ last = NoOp
    /\ steps = 0

\* Inputs of the allocator-level operations
SectorStarts == {6, 7, TotalSectors - 1}
SectorCounts == {1, 2}
SectorData == {[src |-> "a", from |-> 0, len |-> BytesPerSector],
               [src |-> "b", from |-> 0, len |-> BytesPerSector],
               [src |-> "a", from |-> 0, len |-> 16]}
\* <<track, sector, side>>: linear sectors 6, 8 and 15, and a track, a sector
\* and a side out of range
SectorCoords == {<<0, 6, 0>>, <<0, 8, 0>>, <<1, 6, 0>>,
                 <<TracksPerSide, 0, 0>>, <<0, SectorsPerTrack, 0>>,
                 <<0, 6, SidesPerDisk>>}
AllocSizes ==
    {1, BlockSize + 1, (totalBlocks - 4) * BlockSize, (totalBlocks - 3) * BlockSize,
     MaxBlocks * BlockSize, MaxBlocks * BlockSize + 1, (MaxBlocks + 1) * BlockSize}
BlockLists == {<<0>>, <<3>>, <<4, 3>>, <<3, totalBlocks, 4>>}

\* The block list the previous call returned, when it returned one
Returned == IF last.op \in {"AllocateFileSpace", "DefragmentFile"} /\ last.err = nil
            THEN {last.ret} ELSE {}

DirUnchanged == UNCHANGED <<Entries, modified, file, wlog>>

DoAllocateSectors ==
    /\ steps < MaxSteps
    /\ \E start \in SectorStarts, count \in SectorCounts :
          \E r \in {AllocateSectors(allocated, start, count)} :
          /\ allocated' = r.allocated
          /\ last' = [op |-> "AllocateSectors", start |-> start, count |-> count,
                      err |-> r.err, pre |-> Snapshot]
    /\ steps' = steps + 1
    /\ UNCHANGED <<freeBlocks, Tracks>>
    /\ DirUnchanged
    /\ ImageUnchanged
    /\ UNCHANGED dc

DoFreeSectors ==
    /\ steps < MaxSteps
    /\ \E start \in SectorStarts, count \in SectorCounts :
          \E r \in {FreeSectors(allocated, start, count)} :
          /\ allocated' = r.allocated
          /\ last' = [op |-> "FreeSectors", start |-> start, count |-> count,
                      err |-> r.err, pre |-> Snapshot,
                      \* the call before this one, when it was on sectors
                      prev |-> IF last.op \in {"AllocateSectors", "FreeSectors"}
                               THEN [op |-> last.op, start |-> last.start,
                                     count |-> last.count, err |-> last.err,
                                     allocated |-> last.pre.allocated]
                               ELSE NoOp]
    /\ steps' = steps + 1
    /\ UNCHANGED <<freeBlocks, Tracks>>
    /\ DirUnchanged
    /\ ImageUnchanged
    /\ UNCHANGED dc

DoSetSectorData ==
    /\ steps < MaxSteps
    /\ \E c \in SectorCoords, data \in SectorData :
          \E r \in {SetSectorData(allocated, Tracks, c[1], c[2], c[3], data)} :
          /\ allocated' = r.allocated
          /\ Tracks' = r.Tracks
          /\ Wrote(r.err = nil)
          /\ last' = [op |-> "SetSectorData", coords |-> c, data |-> data,
                      err |-> r.err, pre |-> Snapshot]
    /\ steps' = steps + 1
    /\ UNCHANGED freeBlocks
    /\ DirUnchanged
    /\ UNCHANGED dc

\* prev: the call before this one, when it was a SetSectorData
DoGetSectorData ==
    /\ steps < MaxSteps
    /\ \E c \in SectorCoords :
          \E r \in {GetSectorData(allocated, Tracks, c[1], c[2], c[3])} :
          /\ last' = [op |-> "GetSectorData", coords |-> c, err |-> r.err,
                      ret |-> r.data, pre |-> Snapshot,
                      prev |-> IF last.op = "SetSectorData"
                               THEN [op |-> last.op, coords |-> last.coords,
                                     data |-> last.data, err |-> last.err]
                               ELSE NoOp]
    /\ steps' = steps + 1
    /\ UNCHANGED <<allocated, freeBlocks, Tracks>>
    /\ DirUnchanged
    /\ ImageUnchanged
    /\ UNCHANGED dc

DoAllocateFileSpace ==
    /\ steps < MaxSteps
    /\ \E size \in AllocSizes :
          \E r \in {AllocateFileSpace(freeBlocks, allocated, size)} :
          /\ freeBlocks' = r.freeBlocks
          /\ allocated' = r.allocated
          /\ last' = [op |-> "AllocateFileSpace", size |-> size, err |-> r.err,
                      ret |-> r.blocks, pre |-> Snapshot]
    /\ steps' = steps + 1
    /\ UNCHANGED Tracks
    /\ DirUnchanged
    /\ ImageUnchanged
    /\ UNCHANGED dc

DoFreeBlocks ==
    /\ steps < MaxSteps
    /\ \E blocks \in BlockLists \cup Returned :
          \E r \in {FreeBlocks(freeBlocks, allocated, blocks)} :
          /\ freeBlocks' = r.freeBlocks
          /\ allocated' = r.allocated
          /\ last' = [op |-> "FreeBlocks", blocks |-> blocks, err |-> r.err,
                      pre |-> Snapshot]
    /\ steps' = steps + 1
    /\ UNCHANGED Tracks
    /\ DirUnchanged
    /\ ImageUnchanged
    /\ UNCHANGED dc

DoDefragmentFile ==
    /\ steps < MaxSteps
    /\ \E oldBlocks \in {<<3>>, <<4, 3>>, <<5, 4>>} \cup Returned :
          \E r \in {DefragmentFile(freeBlocks, allocated, Tracks, oldBlocks)} :
          /\ freeBlocks' = r.freeBlocks
          /\ allocated' = r.allocated
          /\ Tracks' = r.Tracks
          /\ Wrote(r.wrote)
          /\ last' = [op |-> "DefragmentFile", blocks |-> oldBlocks, err |-> r.err,
                      ret |-> r.blocks, pre |-> Snapshot]
    /\ steps' = steps + 1
    /\ DirUnchanged
    /\ UNCHANGED dc

NextAlloc ==
    \/ DoAllocateSectors
    \/ DoFreeSectors
    \/ DoSetSectorData
    \/ DoGetSectorData
    \/ DoAllocateFileSpace
    \/ DoFreeBlocks
    \/ DoDefragmentFile

SpecAlloc == InitAlloc /\ [][NextAlloc]_vars

----------------------------------------------------------------------------
(* Claims at the allocator level (SpecAlloc) *)

\* The sectors of the range start..start+count-1
SectorRange(start, count) == start..(start + count - 1)

SystemBlocks == 0..(ReservedBlocks + BlocksPerDir - 1)

BlocksFor(size) == (size + BlockSize - 1) \div BlockSize

SeqRange(q) == {q[i] : i \in 1..Len(q)}

\* C2: AllocateSectors(start, count) on a range that holds at least one
\* allocated sector returns an error and leaves the whole bitmap as it was.
C2_AllocateSectorsAtomic ==
    (/\ last.op = "AllocateSectors"
     /\ SectorRange(last.start, last.count) \cap last.pre.allocated # {})
    => (last.err # nil /\ allocated = last.pre.allocated)

\* C2's case: the range was partly allocated, partly free
C2_Witness ==
    /\ last.op = "AllocateSectors"
    /\ SectorRange(last.start, last.count) \cap last.pre.allocated # {}
    /\ SectorRange(last.start, last.count) \ last.pre.allocated # {}
    /\ last.err # nil

\* C3: when AllocateFileSpace returns an error, the block free-map and the
\* sector bitmap are exactly as they were before the call.
C3_AllocateFileSpaceRollsBack ==
    (last.op = "AllocateFileSpace" /\ last.err # nil)
    => (freeBlocks = last.pre.freeBlocks /\ allocated = last.pre.allocated)

\* C4: AllocateFileSpace(size) with ceil(size/BlockSize) > MaxBlocks fails with
\* the size-limit error and changes no block and no sector.
C4_SizeLimitBeforeAllocation ==
    (last.op = "AllocateFileSpace" /\ BlocksFor(last.size) > MaxBlocks)
    => (/\ last.err = "file size exceeds maximum"
        /\ freeBlocks = last.pre.freeBlocks
        /\ allocated = last.pre.allocated)

\* C4's case: a request of one byte more than MaxBlocks blocks, on an allocator
\* that has blocks in use and a stray allocated sector inside a free block
C4_Witness ==
    /\ last.op = "AllocateFileSpace"
    /\ last.size = MaxBlocks * BlockSize + 1
    /\ last.err # nil
    /\ \E b \in last.pre.freeBlocks : blockMap(b) \in last.pre.allocated
    /\ \E b \in 0..(totalBlocks - 1) : b \notin SystemBlocks /\ b \notin last.pre.freeBlocks

\* C5: after any sequence of AllocateFileSpace, FreeBlocks and DefragmentFile
\* calls the system blocks are still marked not free, and none of them is in a
\* block list returned by AllocateFileSpace or DefragmentFile.
C5_SystemBlocksStayReserved ==
    /\ \A b \in SystemBlocks : b \notin freeBlocks
    /\ (last.op \in {"AllocateFileSpace", "DefragmentFile"} /\ last.err = nil)
       => SeqRange(last.ret) \cap SystemBlocks = {}

----------------------------------------------------------------------------
(* The directory level: AddFile and DeleteFile on one Directory *)

\* Filenames, as character codes
N_TEST_BAS == <<84, 69, 83, 84, 46, 66, 65, 83>>        \* "TEST.BAS"
N_test_bas == <<116, 101, 115, 116, 46, 98, 97, 115>>   \* "test.bas"
N_A == <<65>>                                           \* "A"
N_A_Dot == <<65, 46>>                                   \* "A."
N_DATA_BIN == <<68, 65, 84, 65, 46, 66, 73, 78>>        \* "DATA.BIN"
N_Empty == <<>>                                         \* ""
N_TooLong == <<86, 69, 82, 89, 76, 79, 78, 71, 88>>     \* "VERYLONGX"

Filenames == {N_TEST_BAS, N_test_bas, N_A, N_A_Dot, N_DATA_BIN, N_Empty, N_TooLong}

\* "F00" .. "F63": the names of a full directory
N_F(i) == <<70, 48 + (i \div 10), 48 + (i % 10)>>

\* The entry of a live file as +3DOS stores it: the status byte is the user
\* number.  Entries is an exported field; AddFile itself never produces one.
LoadedEntry(filename, user) == [NewDirectoryEntry(filename).entry EXCEPT !.Status = user]

\* InitializeDirectory: every slot marked 0xE5
InitializedDirectory == [i \in Slots |-> [ZeroEntry EXCEPT !.Status = StatusDeleted]]

\* A directory of an existing disk: two live files around a deleted entry
LoadedDirectory ==
    (0 :> LoadedEntry(N_TEST_BAS, 1)) @@
    (1 :> [LoadedEntry(N_DATA_BIN, 1) EXCEPT !.Status = StatusDeleted]) @@
    (2 :> LoadedEntry(N_A, 2))

\* A directory with every slot live
FullDirectory == [i \in Slots |-> LoadedEntry(N_F(i), 1)]

InitialDirectories == {NewDirectory, InitializedDirectory, LoadedDirectory, FullDirectory}

InitDir ==
    /\ allocated = newSectorAllocation
    /\ freeBlocks = newFileAllocation
    /\ Tracks = <<>>
    /\ Header = NewDiskHeader
    /\ Modified = TRUE
    /\ dc = NoDiskCheck
    /\ Entries \in InitialDirectories
    /\ modified = FALSE
    /\ file = NoFile
    /\ wlog = <<>>
    /\ last = NoOp
    /\ steps = 0

DiskUnchanged == UNCHANGED <<allocated, freeBlocks, Tracks, file, wlog>>

DoAddFile ==
    /\ steps < MaxDirSteps
    /\ \E name \in Filenames \cup {N_F(0)} :
          \E r \in {AddFile(Entries, name)} :
          /\ Entries' = r.Entries
          /\ modified' = (modified \/ r.modified)
          /\ last' = [op |-> "AddFile", name |-> name, err |-> r.err, index |-> r.index,
                      pre |-> [Entries |-> Entries]]
    /\ steps' = steps + 1
    /\ DiskUnchanged
    /\ ImageUnchanged
    /\ UNCHANGED dc

DoDeleteFile ==
    /\ steps < MaxDirSteps
    /\ \E name \in Filenames \cup {N_F(0)} :
          \E r \in {DeleteFile(Entries, name)} :
          /\ Entries' = r.Entries
          /\ modified' = (modified \/ r.modified)
          /\ last' = [op |-> "DeleteFile", name |-> name, err |-> r.err,
                      pre |-> [Entries |-> Entries]]
    /\ steps' = steps + 1
    /\ DiskUnchanged
    /\ ImageUnchanged
    /\ UNCHANGED dc

NextDir ==
    \/ DoAddFile
    \/ DoDeleteFile

SpecDir == InitDir /\ [][NextDir]_vars

----------------------------------------------------------------------------
(* Claims at the directory level (SpecDir) *)

\* A live entry: status neither 0x00 nor 0xE5
Live(de) == de.Status # 0 /\ de.Status # 229

LiveSlots(entries) == {i \in Slots : Live(EntryAt(entries, i))}

\* The live slots whose filename is name, compared case-insensitively
LiveNamed(entries, name) ==
    {i \in LiveSlots(entries) : ToUpper(GetFilename(EntryAt(entries, i))) = ToUpper(name)}

ReusableSlots(entries) == Slots \ LiveSlots(entries)

MinOf(S) == CHOOSE i \in S : \A j \in S : i <= j

\* C6: after any sequence of AddFile and DeleteFile calls no two live entries
\* have the same filename, compared case-insensitively.
C6_LiveNamesUnique ==
    \A i \in LiveSlots(Entries) : \A j \in LiveSlots(Entries) :
        i # j => ToUpper(GetFilename(EntryAt(Entries, i)))
                    # ToUpper(GetFilename(EntryAt(Entries, j)))

\* C6's case: an AddFile has stored an entry in a directory that holds live
\* entries, under a name that equals a live entry's name once parsed
C6_Witness ==
    /\ last.op = "AddFile"
    /\ last.err = nil
    /\ Cardinality(LiveSlots(Entries)) >= 2
    /\ \E i \in LiveSlots(Entries) :
          GetFilename(EntryAt(Entries, i)) = GetFilename(EntryAt(Entries, last.index))

\* C7: AddFile(name) fails when a live entry of that name exists; otherwise it
\* stores the new entry in the lowest reusable slot and leaves the other slots
\* unchanged, or fails with directory-full, changing nothing, when there is no
\* such slot; after a successful AddFile, FindFile(name) returns that slot.
C7_AddFile ==
    last.op = "AddFile" =>
        LET pre == last.pre.Entries
            free == ReusableSlots(pre)
        IN /\ LiveNamed(pre, last.name) # {} => (last.err # nil /\ Entries = pre)
           /\ (LiveNamed(pre, last.name) = {} /\ free = {})
                 => (last.err = "directory full" /\ Entries = pre)
           /\ last.err = nil =>
                 /\ LiveNamed(pre, last.name) = {}
                 /\ last.index = MinOf(free)
                 /\ \A i \in Slots \ {last.index} : EntryAt(Entries, i) = EntryAt(pre, i)
                 /\ FindFile(Entries, last.name) = [err |-> nil, index |-> last.index]

\* C8: DeleteFile(name) on a live file sets only that entry's status byte to
\* 0xE5, leaving its other fields and every other entry unchanged, and
\* FindFile(name) then fails; with no live entry of that name it returns an
\* error and changes nothing.
C8_DeleteFile ==
    last.op = "DeleteFile" =>
        LET pre == last.pre.Entries
            hit == LiveNamed(pre, last.name)
        IN /\ hit # {} =>
                 /\ last.err = nil
                 /\ \E i \in hit :
                       /\ EntryAt(Entries, i) = [EntryAt(pre, i) EXCEPT !.Status = 229]
                       /\ \A j \in Slots \ {i} : EntryAt(Entries, j) = EntryAt(pre, j)
                 /\ FindFile(Entries, last.name).err # nil
           /\ hit = {} => (last.err # nil /\ Entries = pre)

\* C8's case: a live file with name, extension and a neighbour was deleted
C8_Witness ==
    /\ last.op = "DeleteFile"
    /\ last.err = nil
    /\ \E i \in LiveSlots(last.pre.Entries) :
          /\ EntryAt(Entries, i).Status = 229
          /\ EntryAt(Entries, i).Name = EntryAt(last.pre.Entries, i).Name
          /\ EntryAt(Entries, i).Extension # Spaces(3)
    /\ LiveSlots(Entries) # {}

----------------------------------------------------------------------------
(* The File handle *)

HeaderSize == 128

EOF == "EOF"

Min(a, b) == IF a < b THEN a ELSE b

\* Buffers whose bytes are all the same: a piece of them has no position
Uniform == {"zero", "e5"}

\* p[from:to] of a slice descriptor
Slice(p, from, to) ==
    [src |-> p.src, from |-> IF p.src \in Uniform THEN 0 ELSE p.from + from,
     len |-> to - from]

\* The bytes of buf followed by those of piece; adjoining pieces of one
\* source buffer are one piece
AppendBytes(buf, piece) ==
    IF piece.len = 0 THEN buf
    ELSE IF /\ buf # <<>>
            /\ buf[Len(buf)].src = piece.src
            /\ \/ piece.src \in Uniform
               \/ buf[Len(buf)].from + buf[Len(buf)].len = piece.from
         THEN [buf EXCEPT ![Len(buf)].len = @ + piece.len]
         ELSE Append(buf, piece)

(* The +3DOS file header *)

HeaderSignature == <<80, 76, 85, 83, 51, 68, 79, 83>>    \* "PLUS3DOS"
HeaderSoftEOF == 26
HeaderVersion == 1
HeaderIssue == 1
FileTypeProgram == 0
FileTypeCode == 3

\* The little-endian bytes of a 16-bit and of a 32-bit value
PutUint16(v) == <<v % Uint8, (v \div Uint8) % Uint8>>
PutUint32(v) == PutUint16(v % 65536) \o PutUint16((v \div 65536) % 65536)

RECURSIVE SumBytes(_)
SumBytes(q) == IF q = <<>> THEN 0 ELSE q[1] + SumBytes(Tail(q))

\* The number of reserved bytes of the header
ReservedSize == 104

\* NewPlus3DosHeader; FileLength is held as the four little-endian bytes of
\* the uint32, whose upper half of values is beyond the integers of the checker
NewPlus3DosHeader ==
    [Signature |-> HeaderSignature, SoftEOF |-> HeaderSoftEOF, Issue |-> HeaderIssue,
     Version |-> HeaderVersion, FileLength |-> PutUint32(0), HeaderData |-> Zeros(8),
     Reserved |-> Zeros(ReservedSize), Checksum |-> 0]

\* SetBasicHeader for a program: LINE in param1, program length in param2
SetBasicHeader(h, fileType, length, param1, param2) ==
    IF fileType > FileTypeCode THEN [err |-> "invalid file type", header |-> h]
    ELSE [err |-> nil,
          header |-> [h EXCEPT !.HeaderData =
             IF fileType = FileTypeProgram
             THEN <<fileType>> \o PutUint16(length) \o PutUint16(param1)
                     \o PutUint16(param2) \o <<h.HeaderData[8]>>
             ELSE IF fileType = FileTypeCode
             THEN <<fileType>> \o PutUint16(length) \o PutUint16(param1)
                     \o SubSeq(h.HeaderData, 6, 8)
             ELSE <<fileType>> \o PutUint16(length) \o <<param1 % Uint8>>
                     \o SubSeq(h.HeaderData, 5, 8)]]

\* toBytes: the 128 bytes binary.Write lays out, fields in declaration order
toBytes(h) ==
    h.Signature \o <<h.SoftEOF, h.Issue, h.Version>> \o h.FileLength
        \o h.HeaderData \o h.Reserved \o <<h.Checksum>>

\* The sum of q[lo..hi]
RECURSIVE SumRange(_, _, _)
SumRange(q, lo, hi) ==
    IF lo > hi THEN 0
    ELSE IF lo = hi THEN q[lo]
    ELSE SumRange(q, lo, (lo + hi) \div 2) + SumRange(q, (lo + hi) \div 2 + 1, hi)

\* The sum of bytes 0..126 of toBytes, accumulated in a uint16
headerSum(h) == SumRange(toBytes(h), 1, HeaderSize - 1) % 65536

UpdateChecksum(h) == [h EXCEPT !.Checksum = headerSum(h) % Uint8]

verifyChecksum(h) == headerSum(h) % Uint8 = h.Checksum

\* Validate without the checksum test
ValidateNoChecksum(h) ==
    IF h.Signature # HeaderSignature THEN "invalid PLUS3DOS header signature"
    ELSE IF h.SoftEOF # HeaderSoftEOF THEN "invalid soft-EOF marker"
    ELSE IF h.Issue # HeaderIssue THEN "incompatible header issue number"
    ELSE IF h.Version > HeaderVersion THEN "incompatible header version"
    ELSE IF h.HeaderData[1] > FileTypeCode THEN "invalid file type"
    ELSE nil

Validate(h) ==
    IF h.Signature # HeaderSignature THEN "invalid PLUS3DOS header signature"
    ELSE IF h.SoftEOF # HeaderSoftEOF THEN "invalid soft-EOF marker"
    ELSE IF h.Issue # HeaderIssue THEN "incompatible header issue number"
    ELSE IF h.Version > HeaderVersion THEN "incompatible header version"
    ELSE IF h.HeaderData[1] > FileTypeCode THEN "invalid file type"
    ELSE IF ~verifyChecksum(h) THEN "header checksum verification failed"
    ELSE nil

\* binary.Read in FromBytes: the header that 128 bytes encode
headerOfBytes(b) ==
    [Signature |-> SubSeq(b, 1, 8), SoftEOF |-> b[9], Issue |-> b[10], Version |-> b[11],
     FileLength |-> SubSeq(b, 12, 15),
     HeaderData |-> SubSeq(b, 16, 23), Reserved |-> SubSeq(b, 24, 127),
     Checksum |-> b[128]]

\* The header TestFileHeader builds: SetBasicHeader(FileTypeProgram, 100, 10, 90)
BasicHeader == SetBasicHeader(NewPlus3DosHeader, FileTypeProgram, 100, 10, 90).header

\* The sizes of the host files that are imported: the program of
\* TestHostIntegration, one sector, and a screen
ImportSizes == {28, 512, 6912}
ImportLine == 10
ImportLoadAddr == 32768
ScreenLoadAddr == 16384

\* The arguments of SetBasicHeader in ImportFile
ImportHeaderArgs ==
    {<<FileTypeProgram, n, ImportLine, n>> : n \in ImportSizes}
    \cup {<<FileTypeCode, n, a, 0>> : n \in ImportSizes, a \in {ImportLoadAddr, ScreenLoadAddr}}

\* The name of the buffer that holds toBytes of the header ImportFile builds
ImportHeaderName(a) == "importheader" \o ToString(a)

\* The source buffers that start with the 128 bytes toBytes yields for a
\* header: "header" after UpdateChecksum, "rawheader" without it, and the
\* headers ImportFile writes
HeaderOf(src) ==
    IF src = "header" THEN UpdateChecksum(BasicHeader)
    ELSE IF src = "rawheader" THEN BasicHeader
    ELSE LET a == CHOOSE a \in ImportHeaderArgs : ImportHeaderName(a) = src
         IN SetBasicHeader(NewPlus3DosHeader, a[1], a[2], a[3], a[4]).header

HeaderBuffers == {"header", "rawheader"} \cup {ImportHeaderName(a) : a \in ImportHeaderArgs}

\* What Plus3DosHeader.toBytes yields after UpdateChecksum
HeaderBytes == [src |-> "header", from |-> 0, len |-> HeaderSize]

\* FromBytes of the bytes ReadAt delivered: the header they encode
FromBytes(data) ==
    IF SumBytes([i \in 1..Len(data) |-> data[i].len]) < HeaderSize
    THEN [err |-> "data too short for header", header |-> NewPlus3DosHeader]
    ELSE IF data[1].src \in HeaderBuffers /\ data[1].from = 0
              /\ data[1].len >= HeaderSize
         THEN [err |-> nil, header |-> HeaderOf(data[1].src)]
         \* any other bytes: no signature
         ELSE [err |-> nil, header |-> [NewPlus3DosHeader EXCEPT !.Signature = Zeros(8)]]

\* header.FromBytes and header.Validate both accept the bytes
ValidHeader(data) ==
    \E h \in {FromBytes(data)} : h.err = nil /\ Validate(h.header) = nil

\* The loop of ReadAt; st = [read, err, data], data being p[0:read]
RECURSIVE readAtLoop(_, _, _, _, _, _)
readAtLoop(f, alloc, tracks, off, toRead, st) ==
    IF ~(st.read < toRead) THEN st
    ELSE LET blockIdx == (off + st.read) \div BlockSize IN
         IF blockIdx >= Len(f.blocks) THEN st
         ELSE LET blockOffset == (off + st.read) % BlockSize
                  blockRemaining == BlockSize - blockOffset
                  readSize == Min(toRead - st.read, blockRemaining)
                  block == f.blocks[blockIdx + 1]
                  firstSector == blockMap(block)
                  sectorOffset == blockOffset \div BytesPerSector
                  sectorNum == firstSector + sectorOffset
                  track == sectorNum \div SectorsPerTrack
                  sector == sectorNum % SectorsPerTrack
              IN With(GetSectorData(alloc, tracks, track, sector, 0), LAMBDA g :
                 IF g.err # nil THEN [st EXCEPT !.err = g.err]
                 ELSE \* copy(p[read:read+readSize], data) copies from the start
                      \* of the sector, as many bytes as the shorter one holds
                      LET copied == Min(readSize, g.data.len) IN
                      With([read |-> st.read + readSize, err |-> nil,
                            data |-> AppendBytes(
                                        AppendBytes(st.data, Slice(g.data, 0, copied)),
                                        [src |-> "zero", from |-> 0,
                                         len |-> readSize - copied])],
                           LAMBDA s1 : readAtLoop(f, alloc, tracks, off, toRead, s1)))

\* The number of bytes to read is not capped by the bytes left in the file.
ReadAtUncapped(f, alloc, tracks, plen, off) ==
    IF off >= f.size THEN [n |-> 0, err |-> EOF, data |-> <<>>]
    ELSE With(readAtLoop(f, alloc, tracks, off, plen,
                         [read |-> 0, err |-> nil, data |-> <<>>]), LAMBDA st :
            IF st.err # nil THEN [n |-> st.read, err |-> st.err, data |-> st.data]
            ELSE [n |-> st.read, err |-> IF st.read < plen THEN EOF ELSE nil,
                  data |-> st.data])

\* ReadAt(p, off) with len(p) = plen and p zeroed: n, err and p[0:n]
ReadAt(f, alloc, tracks, plen, off) ==
    IF off >= f.size THEN [n |-> 0, err |-> EOF, data |-> <<>>]
    ELSE LET toRead == Min(plen, f.size - off) IN
         With(readAtLoop(f, alloc, tracks, off, toRead,
                         [read |-> 0, err |-> nil, data |-> <<>>]), LAMBDA st :
            IF st.err # nil THEN [n |-> st.read, err |-> st.err, data |-> st.data]
            ELSE [n |-> st.read, err |-> IF st.read < plen THEN EOF ELSE nil,
                  data |-> st.data])

\* OpenFile: the handle, and the directory after a possible AddFile
OpenFile(entries, alloc, tracks, filename, createNew) ==
    With(FindFile(entries, filename), LAMBDA found :
    IF found.err # nil /\ ~createNew
    THEN [err |-> found.err, file |-> NoFile, Entries |-> entries, modified |-> FALSE]
    ELSE With(IF found.err # nil
              THEN AddFile(entries, filename)
              ELSE [err |-> nil, Entries |-> entries, index |-> found.index,
                    modified |-> FALSE], LAMBDA a :
         IF a.err # nil
         THEN [err |-> a.err, file |-> NoFile, Entries |-> entries, modified |-> FALSE]
         ELSE LET f == [open |-> TRUE, entry |-> a.index, attached |-> TRUE,
                        blocks |-> <<>>, position |-> 0, size |-> 0,
                        readOnly |-> FALSE, isHeadered |-> FALSE]
              IN With(ReadAt(f, alloc, tracks, HeaderSize, 0), LAMBDA r :
                 LET headered == r.err = nil /\ r.n = HeaderSize /\ ValidHeader(r.data)
                 IN [err |-> nil,
                     file |-> [f EXCEPT !.isHeadered = headered,
                                        !.position = IF headered THEN HeaderSize ELSE 0],
                     Entries |-> a.Entries, modified |-> a.modified])))

\* The loop of WriteAt; st = [written, err, allocated, Tracks]
RECURSIVE writeAtLoop(_, _, _, _)
writeAtLoop(blocks, p, off, st) ==
    IF ~(st.written < p.len) THEN st
    ELSE LET blockIdx == (off + st.written) \div BlockSize IN
         IF blockIdx >= Len(blocks) THEN st
         ELSE LET blockOffset == (off + st.written) % BlockSize
                  blockRemaining == BlockSize - blockOffset
                  writeSize == Min(p.len - st.written, blockRemaining)
                  block == blocks[blockIdx + 1]
                  firstSector == blockMap(block)
                  sectorOffset == blockOffset \div BytesPerSector
                  sectorNum == firstSector + sectorOffset
                  track == sectorNum \div SectorsPerTrack
                  sector == sectorNum % SectorsPerTrack
              IN With(SetSectorData(st.allocated, st.Tracks, track, sector, 0,
                                    Slice(p, st.written, st.written + writeSize)),
                      LAMBDA s :
                 IF s.err # nil
                 THEN [written |-> st.written, err |-> s.err,
                       allocated |-> s.allocated, Tracks |-> s.Tracks]
                 ELSE With([written |-> st.written + writeSize, err |-> nil,
                            allocated |-> s.allocated, Tracks |-> s.Tracks],
                           LAMBDA s1 : writeAtLoop(blocks, p, off, s1)))

WriteAt(f, fb, alloc, tracks, p, off) ==
    IF f.readOnly
    THEN [n |-> 0, err |-> "file is read-only", file |-> f, freeBlocks |-> fb,
          allocated |-> alloc, Tracks |-> tracks]
    ELSE LET endPos == off + p.len
             blocksNeeded == (endPos + BlockSize - 1) \div BlockSize
             currentBlocks == Len(f.blocks)
         IN With(IF endPos > f.size /\ blocksNeeded > currentBlocks
                 THEN AllocateFileSpace(fb, alloc, endPos - f.size)
                 ELSE [err |-> nil, blocks |-> <<>>, freeBlocks |-> fb,
                       allocated |-> alloc], LAMBDA a :
            IF a.err # nil
            THEN [n |-> 0, err |-> "failed to allocate space: " \o a.err, file |-> f,
                  freeBlocks |-> a.freeBlocks, allocated |-> a.allocated,
                  Tracks |-> tracks]
            ELSE LET f1 == [f EXCEPT !.blocks = @ \o a.blocks,
                                     !.size = IF endPos > @ THEN endPos ELSE @]
                 IN With(writeAtLoop(f1.blocks, p, off,
                                     [written |-> 0, err |-> nil,
                                      allocated |-> a.allocated, Tracks |-> tracks]),
                         LAMBDA st :
                    [n |-> st.written, err |-> st.err,
                     file |-> IF st.err # nil THEN f1
                              ELSE [f1 EXCEPT !.position = off + st.written],
                     freeBlocks |-> a.freeBlocks, allocated |-> st.allocated,
                     Tracks |-> st.Tracks]))

Write(f, fb, alloc, tracks, p) ==
    IF f.readOnly
    THEN [n |-> 0, err |-> "file is read-only", file |-> f, freeBlocks |-> fb,
          allocated |-> alloc, Tracks |-> tracks]
    ELSE WriteAt(f, fb, alloc, tracks, p, f.position)

\* Read(p) with len(p) = plen: ReadAt at the position, which then advances
Read(f, alloc, tracks, plen) ==
    With(ReadAt(f, alloc, tracks, plen, f.position), LAMBDA r :
       [n |-> r.n, err |-> r.err, data |-> r.data,
        file |-> [f EXCEPT !.position = @ + r.n]])

\* io.SeekStart, io.SeekCurrent, io.SeekEnd
SeekStart == 0
SeekCurrent == 1
SeekEnd == 2

\* The position is assigned before it is checked.
SeekUnchecked(f, offset, whence) ==
    IF whence \notin {SeekStart, SeekCurrent, SeekEnd}
    THEN [ret |-> 0, err |-> "invalid whence", file |-> f]
    ELSE LET abs == IF whence = SeekStart THEN offset
                    ELSE IF whence = SeekCurrent THEN f.position + offset
                    ELSE f.size + offset
         IN IF abs < 0
            THEN [ret |-> 0, err |-> "negative position",
                  file |-> [f EXCEPT !.position = abs]]
            ELSE [ret |-> abs, err |-> nil, file |-> [f EXCEPT !.position = abs]]

Seek(f, offset, whence) ==
    IF whence \notin {SeekStart, SeekCurrent, SeekEnd}
    THEN [ret |-> 0, err |-> "invalid whence", file |-> f]
    ELSE LET abs == IF whence = SeekStart THEN offset
                    ELSE IF whence = SeekCurrent THEN f.position + offset
                    ELSE f.size + offset
         IN IF abs < 0
            THEN [ret |-> 0, err |-> "negative position", file |-> f]
            ELSE [ret |-> abs, err |-> nil, file |-> [f EXCEPT !.position = abs]]

Uint16 == 65536

\* The size is recorded in whole records only: a last, partial record is
\* not counted.
CloseWholeRecords(f, fb, alloc, tracks, entries) ==
    IF f.readOnly
    THEN [err |-> nil, file |-> f, freeBlocks |-> fb, allocated |-> alloc,
          Tracks |-> tracks, Entries |-> entries, modified |-> FALSE, wrote |-> FALSE]
    ELSE With(IF f.isHeadered
              THEN WriteAt(f, fb, alloc, tracks, HeaderBytes, 0)
              ELSE [n |-> 0, err |-> nil, file |-> f, freeBlocks |-> fb,
                    allocated |-> alloc, Tracks |-> tracks], LAMBDA w :
         IF w.err # nil
         THEN [err |-> "failed to write header: " \o w.err, file |-> w.file,
               freeBlocks |-> w.freeBlocks, allocated |-> w.allocated,
               Tracks |-> w.Tracks, Entries |-> entries, modified |-> FALSE,
               wrote |-> w.n > 0]
         ELSE LET n == Len(w.file.blocks) % Uint16
                  e == [EntryAt(entries, f.entry) EXCEPT
                          !.LogicalSize = (w.file.size \div 128) % Uint16,
                          !.AllocationBlocks =
                              [@ EXCEPT ![1] = n % Uint8, ![2] = n \div Uint8]]
              IN [err |-> nil, file |-> w.file, freeBlocks |-> w.freeBlocks,
                  allocated |-> w.allocated, Tracks |-> w.Tracks,
                  \* f.entry points into the Directory OpenFile saw
                  Entries |-> IF f.attached THEN PutEntry(entries, f.entry, e)
                              ELSE entries,
                  modified |-> TRUE, wrote |-> w.n > 0])

\* Close: the header of a headered file is rewritten, then the directory
\* entry takes the size in 128-byte records and the number of blocks
Close(f, fb, alloc, tracks, entries) ==
    IF f.readOnly
    THEN [err |-> nil, file |-> f, freeBlocks |-> fb, allocated |-> alloc,
          Tracks |-> tracks, Entries |-> entries, modified |-> FALSE, wrote |-> FALSE]
    ELSE With(IF f.isHeadered
              THEN WriteAt(f, fb, alloc, tracks, HeaderBytes, 0)
              ELSE [n |-> 0, err |-> nil, file |-> f, freeBlocks |-> fb,
                    allocated |-> alloc, Tracks |-> tracks], LAMBDA w :
         IF w.err # nil
         THEN [err |-> "failed to write header: " \o w.err, file |-> w.file,
               freeBlocks |-> w.freeBlocks, allocated |-> w.allocated,
               Tracks |-> w.Tracks, Entries |-> entries, modified |-> FALSE,
               wrote |-> w.n > 0]
         ELSE LET n == Len(w.file.blocks) % Uint16
                  e == [EntryAt(entries, f.entry) EXCEPT
                          !.LogicalSize = ((w.file.size + 127) \div 128) % Uint16,
                          !.AllocationBlocks =
                              [@ EXCEPT ![1] = n % Uint8, ![2] = n \div Uint8]]
              IN [err |-> nil, file |-> w.file, freeBlocks |-> w.freeBlocks,
                  allocated |-> w.allocated, Tracks |-> w.Tracks,
                  \* f.entry points into the Directory OpenFile saw
                  Entries |-> IF f.attached THEN PutEntry(entries, f.entry, e)
                              ELSE entries,
                  modified |-> TRUE, wrote |-> w.n > 0])

directorySectors ==
    (MaxDirectoryEntries * DirectoryEntrySize + BytesPerSector - 1) \div BytesPerSector

emptyData == [src |-> "e5", from |-> 0, len |-> BytesPerSector]

(* Host file import and export *)

\* The size of the buffer io.Copy moves the bytes through
CopyBufferSize == 32 * 1024

\* maxSize in ImportFile
MaxImportSize == 8 * 1024 * 1024

\* opts == nil
NoOptions == [AddHeader |-> FALSE, FileType |-> 0, LoadAddr |-> 0, Line |-> 0]

\* io.Copy(dst, src) in ImportFile: every chunk the host file yields is
\* handed to dst.Write; st = [done, err, file, freeBlocks, allocated, Tracks]
RECURSIVE importCopy(_, _)
importCopy(data, st) ==
    IF st.done >= data.len THEN st
    ELSE LET chunk == Slice(data, st.done, Min(st.done + CopyBufferSize, data.len)) IN
         With(Write(st.file, st.freeBlocks, st.allocated, st.Tracks, chunk), LAMBDA w :
            With([done |-> st.done + w.n, wrote |-> st.wrote \/ w.n > 0,
                  err |-> IF w.err # nil THEN w.err
                          ELSE IF w.n # chunk.len THEN "short write" ELSE nil,
                  file |-> w.file, freeBlocks |-> w.freeBlocks,
                  allocated |-> w.allocated, Tracks |-> w.Tracks], LAMBDA s1 :
               IF s1.err # nil THEN s1 ELSE importCopy(data, s1)))

\* ImportFile after OpenFile: the header, when one is asked for, and the data
importBody(f, fb, alloc, tracks, data, opts) ==
    LET size == data.len % Uint16
        start == [done |-> 0, wrote |-> FALSE, err |-> nil, file |-> f,
                  freeBlocks |-> fb, allocated |-> alloc, Tracks |-> tracks]
    IN IF ~opts.AddHeader THEN importCopy(data, start)
       ELSE IF opts.FileType \notin {FileTypeProgram, FileTypeCode}
       THEN [start EXCEPT !.err = "unsupported file type for header"]
       ELSE LET a == IF opts.FileType = FileTypeProgram
                     THEN <<FileTypeProgram, size, opts.Line, size>>
                     ELSE <<FileTypeCode, size, opts.LoadAddr, 0>>
                \* headerData := header.toBytes(), without UpdateChecksum
                headerData == [src |-> ImportHeaderName(a), from |-> 0,
                               len |-> Len(toBytes(HeaderOf(ImportHeaderName(a))))]
            IN With(Write(f, fb, alloc, tracks, headerData), LAMBDA w :
               With([done |-> 0, wrote |-> w.n > 0, err |-> w.err, file |-> w.file,
                     freeBlocks |-> w.freeBlocks, allocated |-> w.allocated,
                     Tracks |-> w.Tracks], LAMBDA s1 :
                  IF s1.err # nil THEN s1 ELSE importCopy(data, s1)))

\* ImportFile; the deferred dst.Close() runs on every return after OpenFile
ImportFile(entries, fb, alloc, tracks, data, diskPath, opts) ==
    IF data.len > MaxImportSize
    THEN [err |-> "file too large for +3DOS (max 8MB)", Entries |-> entries,
          freeBlocks |-> fb, allocated |-> alloc, Tracks |-> tracks, modified |-> FALSE,
          wrote |-> FALSE]
    ELSE With(OpenFile(entries, alloc, tracks, diskPath, TRUE), LAMBDA o :
         IF o.err # nil
         THEN [err |-> o.err, Entries |-> entries, freeBlocks |-> fb, allocated |-> alloc,
               Tracks |-> tracks, modified |-> FALSE, wrote |-> FALSE]
         ELSE With(importBody(o.file, fb, alloc, tracks, data, opts), LAMBDA b :
              With(Close(b.file, b.freeBlocks, b.allocated, b.Tracks, o.Entries), LAMBDA c :
                 [err |-> b.err, Entries |-> c.Entries, freeBlocks |-> c.freeBlocks,
                  allocated |-> c.allocated, Tracks |-> c.Tracks,
                  modified |-> o.modified \/ c.modified,
                  wrote |-> b.wrote \/ c.wrote])))

\* The bytes of buf followed by those of every piece
RECURSIVE JoinBytes(_, _)
JoinBytes(buf, pieces) ==
    IF pieces = <<>> THEN buf
    ELSE JoinBytes(AppendBytes(buf, Head(pieces)), Tail(pieces))

\* io.Copy(dst, src) in ExportFile: src.Read until it reports an error;
\* st = [file, out, err, done]
RECURSIVE exportCopy(_, _, _)
exportCopy(alloc, tracks, st) ==
    With(Read(st.file, alloc, tracks, CopyBufferSize), LAMBDA r :
       With([file |-> r.file, out |-> JoinBytes(st.out, r.data),
             err |-> IF r.err = EOF THEN nil ELSE r.err,
             done |-> r.err # nil], LAMBDA s1 :
          IF s1.done THEN s1 ELSE exportCopy(alloc, tracks, s1)))

\* ExportFile: the bytes the host file receives; the deferred src.Close()
\* runs on every return after OpenFile
ExportFile(entries, fb, alloc, tracks, diskPath, stripHeader) ==
    With(OpenFile(entries, alloc, tracks, diskPath, FALSE), LAMBDA o :
    IF o.err # nil
    THEN [err |-> o.err, out |-> <<>>, Entries |-> entries, freeBlocks |-> fb,
          allocated |-> alloc, Tracks |-> tracks, modified |-> FALSE, wrote |-> FALSE]
    ELSE With(IF stripHeader /\ o.file.isHeadered
              THEN Seek(o.file, HeaderSize, SeekStart)
              ELSE [ret |-> 0, err |-> nil, file |-> o.file], LAMBDA k :
         With(IF k.err # nil
              THEN [file |-> k.file, out |-> <<>>, err |-> k.err, done |-> TRUE]
              ELSE exportCopy(alloc, tracks,
                              [file |-> k.file, out |-> <<>>, err |-> nil,
                               done |-> FALSE]), LAMBDA x :
         With(Close(x.file, fb, alloc, tracks, o.Entries), LAMBDA c :
            [err |-> x.err, out |-> x.out, Entries |-> c.Entries,
             freeBlocks |-> c.freeBlocks, allocated |-> c.allocated,
             Tracks |-> c.Tracks, modified |-> o.modified \/ c.modified,
             wrote |-> c.wrote]))))

\* The loop of InitializeDirectory over the directory sectors
RECURSIVE initDirectoryLoop(_, _)
initDirectoryLoop(st, sector) ==
    IF ~(sector < directorySectors) THEN st
    ELSE With(SetSectorData(st.allocated, st.Tracks, DirectoryTrack,
                            sector + DirectorySector, 0, emptyData), LAMBDA s :
         IF s.err # nil
         THEN [err |-> "failed to initialize directory sector",
               allocated |-> s.allocated, Tracks |-> s.Tracks, wrote |-> st.wrote]
         ELSE initDirectoryLoop([err |-> nil, allocated |-> s.allocated,
                                 Tracks |-> s.Tracks, wrote |-> TRUE], sector + 1))

\* InitializeDirectory: the directory sectors filled with 0xE5 and a new
\* Directory with every entry marked 0xE5
InitializeDirectory(alloc, tracks, entries) ==
    With(initDirectoryLoop([err |-> nil, allocated |-> alloc, Tracks |-> tracks,
                            wrote |-> FALSE], 0),
         LAMBDA st :
       IF st.err # nil
       THEN [err |-> st.err, allocated |-> st.allocated, Tracks |-> st.Tracks,
             Entries |-> entries, replaced |-> FALSE, wrote |-> st.wrote]
       ELSE [err |-> nil, allocated |-> st.allocated, Tracks |-> st.Tracks,
             Entries |-> InitializedDirectory, replaced |-> TRUE, wrote |-> st.wrote])

----------------------------------------------------------------------------
(* File attributes *)

AttrReadOnly == 1       \* 0x01
AttrHidden == 2         \* 0x02
AttrSystem == 4         \* 0x04, directory.go
AttrSystemType == 2     \* 0x02, the AttrSystem of fileattr.go
AttrArchived == 32      \* 0x20
AttrUserF1 == 64        \* 0x40
AttrUserF2 == 128       \* 0x80
AttrUserF3 == 64        \* 0x40
AttrUserF4 == 128       \* 0x80

\* b & (1 << i) != 0
BitSet(b, i) == (b \div (2 ^ i)) % 2 = 1

\* b | 0x80 and b & 0x7F
SetHighBit(b) == IF b >= 128 THEN b ELSE b + 128

ClearHighBit(b) == b % 128

\* DirectoryEntry.SetAttributes: bits 0, 1, 2 and 5 of Reserved1 are replaced
\* (Reserved1 & 0xD8) | attr
SetAttributes(de, readOnly, hidden, system) ==
    LET attr == (IF readOnly THEN AttrReadOnly ELSE 0)
                + (IF hidden THEN AttrHidden ELSE 0)
                + (IF system THEN AttrSystem ELSE 0)
        kept == (de.Reserved1 \div 64) * 64 + ((de.Reserved1 \div 8) % 4) * 8
    IN [de EXCEPT !.Reserved1 = kept + attr]

GetAttributes(de) ==
    [readOnly |-> BitSet(de.Reserved1, 0),
     hidden |-> BitSet(de.Reserved1, 1),
     system |-> BitSet(de.Reserved1, 2)]

\* The zero value of FileAttributes
NoAttributes ==
    [ReadOnly |-> FALSE, System |-> FALSE, Archived |-> FALSE,
     UserF1 |-> FALSE, UserF2 |-> FALSE, UserF3 |-> FALSE, UserF4 |-> FALSE]

GetTypeAttributes(fa) ==
    (IF fa.ReadOnly THEN AttrReadOnly ELSE 0)
    + (IF fa.System THEN AttrSystemType ELSE 0)
    + (IF fa.Archived THEN AttrArchived ELSE 0)

SetTypeAttributes(fa, b) ==
    [fa EXCEPT !.ReadOnly = BitSet(b, 0), !.System = BitSet(b, 1),
               !.Archived = BitSet(b, 5)]

GetNameAttributes(fa) ==
    [i \in 1..8 |-> IF i = 1 /\ fa.UserF1 THEN AttrUserF1
                    ELSE IF i = 2 /\ fa.UserF2 THEN AttrUserF2
                    ELSE IF i = 3 /\ fa.UserF3 THEN AttrUserF3
                    ELSE IF i = 4 /\ fa.UserF4 THEN AttrUserF4
                    ELSE 0]

SetNameAttributes(fa, attrs) ==
    [fa EXCEPT !.UserF1 = BitSet(attrs[1], 6), !.UserF2 = BitSet(attrs[2], 7),
               !.UserF3 = BitSet(attrs[3], 6), !.UserF4 = BitSet(attrs[4], 7)]

\* ApplyToDirectoryEntry: extension byte i takes bit i of the type attributes
\* as its high bit, name byte i the high bit of name attribute i
ApplyToDirectoryEntry(fa, entry) ==
    [entry EXCEPT
       !.Extension = [i \in 1..3 |->
                        IF BitSet(GetTypeAttributes(fa), i - 1)
                        THEN SetHighBit(entry.Extension[i])
                        ELSE ClearHighBit(entry.Extension[i])],
       !.Name = [i \in 1..8 |->
                   IF BitSet(GetNameAttributes(fa)[i], 7)
                   THEN SetHighBit(entry.Name[i])
                   ELSE ClearHighBit(entry.Name[i])]]

ReadFromDirectoryEntry(fa, entry) ==
    LET typeAttrs == (IF BitSet(entry.Extension[1], 7) THEN 1 ELSE 0)
                     + (IF BitSet(entry.Extension[2], 7) THEN 2 ELSE 0)
                     + (IF BitSet(entry.Extension[3], 7) THEN 4 ELSE 0)
        nameAttrs == [i \in 1..8 |-> IF BitSet(entry.Name[i], 7) THEN 128 ELSE 0]
    IN SetNameAttributes(SetTypeAttributes(fa, typeAttrs), nameAttrs)

----------------------------------------------------------------------------
(* The file level: one image, its directory and one File handle *)

\* "TEST.BAS" as GetFilename returns it once the read-only attribute is applied
N_TEST_BAS_RO == <<84, 69, 83, 84, 46, 194, 65, 83>>

\* The directory of an existing disk with both files made read-only: TEST.BAS
\* through FileAttributes.ApplyToDirectoryEntry, A through SetAttributes
ReadOnlyDirectory ==
    (0 :> ApplyToDirectoryEntry([NoAttributes EXCEPT !.ReadOnly = TRUE],
                                LoadedEntry(N_TEST_BAS, 1))) @@
    (1 :> [LoadedEntry(N_DATA_BIN, 1) EXCEPT !.Status = StatusDeleted]) @@
    (2 :> SetAttributes(LoadedEntry(N_A, 2), TRUE, FALSE, FALSE))

InitialFileDirectories == {NewDirectory, LoadedDirectory, ReadOnlyDirectory}

InitFile ==
    /\ allocated = newSectorAllocation
    /\ freeBlocks = newFileAllocation
    /\ Tracks = <<>>
    /\ Header = NewDiskHeader
    /\ Modified = TRUE
    /\ dc = NoDiskCheck
    /\ Entries \in InitialFileDirectories
    /\ modified = FALSE
    /\ file = NoFile
    /\ wlog = <<>>
    /\ last = NoOp
    /\ steps = 0

\* Inputs of the file-level operations
OpenNames == {N_A, N_TEST_BAS, N_TEST_BAS_RO}
Payloads == {[src |-> "a", from |-> 0, len |-> 19],
             [src |-> "a", from |-> 0, len |-> BytesPerSector],
             [src |-> "b", from |-> 0, len |-> BytesPerSector],
             [src |-> "b", from |-> 0, len |-> BlockSize],
             [src |-> "header", from |-> 0, len |-> BytesPerSector],
             [src |-> "rawheader", from |-> 0, len |-> BytesPerSector]}
Offsets == {0, 100, BytesPerSector, BlockSize}

\* A write is logged when it stored all of p
Logged(log, r, p, off) ==
    IF r.err = nil /\ r.n = p.len
    THEN Append(log, [op |-> "WriteAt", p |-> p, off |-> off])
    ELSE log

DoInitializeDirectory ==
    /\ steps < MaxFileSteps
    /\ \E r \in {InitializeDirectory(allocated, Tracks, Entries)} :
          /\ allocated' = r.allocated
          /\ Tracks' = r.Tracks
          /\ Wrote(r.wrote)
          /\ Entries' = r.Entries
          /\ modified' = IF r.replaced THEN FALSE ELSE modified
          /\ file' = IF r.replaced /\ file.open THEN [file EXCEPT !.attached = FALSE]
                     ELSE file
          /\ last' = [op |-> "InitializeDirectory", err |-> r.err]
    /\ steps' = steps + 1
    /\ UNCHANGED <<freeBlocks, wlog>>
    /\ UNCHANGED dc

DoOpenFile ==
    /\ steps < MaxFileSteps
    /\ \E name \in OpenNames, createNew \in BOOLEAN :
          \E r \in {OpenFile(Entries, allocated, Tracks, name, createNew)} :
          /\ Entries' = r.Entries
          /\ modified' = (modified \/ r.modified)
          /\ file' = IF r.err = nil THEN r.file ELSE file
          /\ wlog' = IF r.err = nil
                     THEN <<[op |-> "OpenFile", createNew |-> createNew]>>
                     ELSE wlog
          /\ last' = [op |-> "OpenFile", name |-> name, createNew |-> createNew,
                      err |-> r.err,
                      pre |-> [file |-> file, wlog |-> wlog, op |-> last.op,
                               Entries |-> Entries]]
    /\ steps' = steps + 1
    /\ UNCHANGED <<allocated, freeBlocks, Tracks>>
    /\ ImageUnchanged
    /\ UNCHANGED dc

DoWriteAt ==
    /\ steps < MaxFileSteps
    /\ file.open
    /\ \E p \in Payloads, off \in Offsets :
          \E r \in {WriteAt(file, freeBlocks, allocated, Tracks, p, off)} :
          /\ file' = r.file
          /\ freeBlocks' = r.freeBlocks
          /\ allocated' = r.allocated
          /\ Tracks' = r.Tracks
          /\ Wrote(r.n > 0)
          /\ wlog' = Logged(wlog, r, p, off)
          /\ last' = [op |-> "WriteAt", p |-> p, off |-> off, n |-> r.n, err |-> r.err,
                      pre |-> [freeBlocks |-> freeBlocks, size |-> file.size, file |-> file,
                               allocated |-> allocated, Tracks |-> Tracks]]
    /\ steps' = steps + 1
    /\ UNCHANGED <<Entries, modified>>
    /\ UNCHANGED dc

DoWrite ==
    /\ steps < MaxFileSteps
    /\ file.open
    /\ \E p \in Payloads :
          \E r \in {Write(file, freeBlocks, allocated, Tracks, p)} :
          /\ file' = r.file
          /\ freeBlocks' = r.freeBlocks
          /\ allocated' = r.allocated
          /\ Tracks' = r.Tracks
          /\ Wrote(r.n > 0)
          /\ wlog' = Logged(wlog, r, p, file.position)
          /\ last' = [op |-> "Write", p |-> p, off |-> file.position, n |-> r.n,
                      err |-> r.err,
                      pre |-> [freeBlocks |-> freeBlocks, size |-> file.size, file |-> file,
                               allocated |-> allocated, Tracks |-> Tracks]]
    /\ steps' = steps + 1
    /\ UNCHANGED <<Entries, modified>>
    /\ UNCHANGED dc

DoClose ==
    /\ steps < MaxFileSteps
    /\ file.open
    /\ \E r \in {Close(file, freeBlocks, allocated, Tracks, Entries)} :
          /\ file' = r.file
          /\ freeBlocks' = r.freeBlocks
          /\ allocated' = r.allocated
          /\ Tracks' = r.Tracks
          /\ Wrote(r.wrote)
          /\ Entries' = r.Entries
          /\ modified' = (modified \/ r.modified)
          /\ last' = [op |-> "Close", err |-> r.err,
                      pre |-> [file |-> file, Entries |-> Entries,
                               allocated |-> allocated, Tracks |-> Tracks]]
    /\ steps' = steps + 1
    /\ UNCHANGED wlog
    /\ UNCHANGED dc

DoDeleteOpenedFile ==
    /\ steps < MaxFileSteps
    /\ \E name \in OpenNames :
          \E r \in {DeleteFile(Entries, name)} :
          /\ Entries' = r.Entries
          /\ modified' = (modified \/ r.modified)
          /\ last' = [op |-> "DeleteFile", name |-> name, err |-> r.err,
                      pre |-> [Entries |-> Entries]]
    /\ steps' = steps + 1
    /\ UNCHANGED <<allocated, freeBlocks, Tracks, file, wlog>>
    /\ ImageUnchanged
    /\ UNCHANGED dc

\* Inputs of Seek, Read and ReadAt
SeekOffsets == {-600, -1, 100}
Whences == {SeekStart, SeekCurrent, SeekEnd, 99}
ReadLengths == {100, 600}
ReadOffsets == {0, 500, BytesPerSector}

DoSeek ==
    /\ steps < MaxFileSteps
    /\ file.open
    /\ \E offset \in SeekOffsets, whence \in Whences :
          \E r \in {Seek(file, offset, whence)} :
          /\ file' = r.file
          /\ last' = [op |-> "Seek", offset |-> offset, whence |-> whence,
                      ret |-> r.ret, err |-> r.err, pre |-> [file |-> file]]
    /\ steps' = steps + 1
    /\ UNCHANGED <<allocated, freeBlocks, Tracks, Entries, modified, wlog>>
    /\ ImageUnchanged
    /\ UNCHANGED dc

DoRead ==
    /\ steps < MaxFileSteps
    /\ file.open
    /\ \E plen \in ReadLengths :
          \E r \in {Read(file, allocated, Tracks, plen)} :
          /\ file' = r.file
          /\ last' = [op |-> "Read", plen |-> plen, off |-> file.position,
                      n |-> r.n, err |-> r.err, pre |-> [file |-> file]]
    /\ steps' = steps + 1
    /\ UNCHANGED <<allocated, freeBlocks, Tracks, Entries, modified, wlog>>
    /\ ImageUnchanged
    /\ UNCHANGED dc

DoReadAt ==
    /\ steps < MaxFileSteps
    /\ file.open
    /\ \E plen \in ReadLengths, off \in ReadOffsets :
          \E r \in {ReadAt(file, allocated, Tracks, plen, off)} :
          /\ last' = [op |-> "ReadAt", plen |-> plen, off |-> off,
                      n |-> r.n, err |-> r.err, pre |-> [file |-> file]]
    /\ steps' = steps + 1
    /\ UNCHANGED <<allocated, freeBlocks, Tracks, Entries, modified, wlog, file>>
    /\ ImageUnchanged
    /\ UNCHANGED dc

NextFile ==
    \/ DoOpenFile
    \/ DoWriteAt
    \/ DoWrite
    \/ DoClose
    \/ DoDeleteOpenedFile
    \/ DoInitializeDirectory

SpecFile == InitFile /\ [][NextFile]_vars

\* The handle as a stream: opening, writing, positioning and reading
NextHandle ==
    \/ DoOpenFile
    \/ DoWriteAt
    \/ DoSeek
    \/ DoRead
    \/ DoReadAt

SpecHandle == InitFile /\ [][NextHandle]_vars

----------------------------------------------------------------------------
(* Claims at the file level (SpecFile) *)

FileOps == {"InitializeDirectory", "OpenFile", "Write", "WriteAt", "Close", "DeleteFile"}

\* The boot sector and the directory sectors
ReservedRegion ==
    {PhysicalToLinear(0, 0, 0).linear}
        \cup {PhysicalToLinear(DirectoryTrack, DirectorySector + s, 0).linear :
                 s \in 0..(directorySectors - 1)}

\* The block list of an entry: the non-zero bytes of AllocationBlocks
EntryBlocks(de) == {de.AllocationBlocks[i] : i \in 1..16} \ {0}

SectorsOfBlock(b) == SectorRange(blockMap(b), sectorsPerBlock)

SectorsOfBlocks(B) == UNION {SectorsOfBlock(b) : b \in B}

\* The sectors of the blocks held by the live entries
HeldSectors(entries) ==
    SectorsOfBlocks(UNION {EntryBlocks(EntryAt(entries, i)) : i \in LiveSlots(entries)})

\* The sectors of the system blocks and of the reserved region
SystemRegion == SectorsOfBlocks(SystemBlocks) \cup ReservedRegion

\* C1: after any sequence of InitializeDirectory, OpenFile, Write, WriteAt,
\* Close and DeleteFile calls on one image, a sector is marked allocated in
\* the sector bitmap if and only if it lies in the reserved region (boot
\* sector and directory sectors) or in a block held by a live directory
\* entry.  Stated for the sectors outside the system region, where the
\* equivalence reads: allocated if and only if held by a live entry.
C1_AllocatedIffReservedOrHeld ==
    last.op \in FileOps =>
        \A s \in (0..(TotalSectors - 1)) \ SystemRegion :
            s \in allocated <=> s \in HeldSectors(Entries)

\* The handle is the one of the file the last DeleteFile call named, the
\* file has been written and closed, and its entry records its blocks
DeletedHandle ==
    /\ last.op = "DeleteFile"
    /\ last.err = nil
    /\ file.open
    /\ file.attached
    /\ file.entry = FindFile(last.pre.Entries, last.name).index
    /\ file.blocks # <<>>
    /\ Len(wlog) >= 2
    /\ EntryAt(last.pre.Entries, file.entry).AllocationBlocks[1] = Len(file.blocks)

\* C9: after DeleteFile(name) of a file that held k blocks, those blocks and
\* their sectors are free again, and AllocateFileSpace for up to k*BlockSize
\* bytes succeeds on them alone, with no other block free.
C9_DeleteReleasesSpace ==
    DeletedHandle =>
        /\ SeqRange(file.blocks) \subseteq freeBlocks
        /\ SectorsOfBlocks(SeqRange(file.blocks)) \cap allocated = {}
        /\ \A size \in {1, Len(file.blocks) * BlockSize} :
              AllocateFileSpace(freeBlocks \cap SeqRange(file.blocks), allocated,
                                size).err = nil

\* The bytes off..off+len(p)-1 of the file read back as p
ReadsBack(p, off) ==
    \E r \in {ReadAt(file, allocated, Tracks, p.len, off)} :
    r.err = nil /\ r.n = p.len /\ r.data = <<p>>

Overlap(w, v) == w.off < v.off + v.p.len /\ v.off < w.off + w.p.len

\* C10: on a handle opened for create, with enough free blocks, WriteAt(p, off)
\* returns len(p) and no error whatever the length of p, ReadAt of len(p)
\* bytes at off then returns p, and every earlier write that no later write
\* overlaps still reads back unchanged.
C10_WriteAtReadAtRoundTrip ==
    (/\ last.op = "WriteAt"
     /\ wlog # <<>>
     /\ wlog[1].createNew
     /\ Cardinality(last.pre.freeBlocks) >= BlocksFor(last.off + last.p.len))
    => /\ last.err = nil
       /\ last.n = last.p.len
       /\ ReadsBack(last.p, last.off)
       /\ \A i \in 2..Len(wlog) :
             (\A j \in (i + 1)..Len(wlog) : ~Overlap(wlog[i], wlog[j]))
                => ReadsBack(wlog[i].p, wlog[i].off)

\* The write wlog[i] has not been overlapped by a later write
Intact(log, i) == \A j \in (i + 1)..Len(log) : ~Overlap(log[i], log[j])

\* The bytes off..off+len(p)-1 read through handle f are p
ReadsBackFrom(f, p, off) ==
    \E r \in {ReadAt(f, allocated, Tracks, p.len, off)} :
        r.err = nil /\ r.n = p.len /\ r.data = <<p>>

\* The last call opened, without create, the name of the file whose handle
\* was written and then closed by the call before
ReopenedAfterClose ==
    /\ last.op = "OpenFile"
    /\ ~last.createNew
    /\ last.pre.op = "Close"
    /\ last.pre.file.attached
    /\ Len(last.pre.wlog) >= 2
    /\ ToUpper(GetFilename(EntryAt(last.pre.Entries, last.pre.file.entry)))
          = ToUpper(last.name)

\* C11: after data is written to a file and its handle is closed,
\* OpenFile(name, false) on the same image succeeds with a handle that has the
\* size and the block list of the closed file, and reading through it returns
\* the bytes that were written.
C11_ContentsSurviveClose ==
    ReopenedAfterClose =>
        /\ last.err = nil
        /\ file.size = last.pre.file.size
        /\ file.blocks = last.pre.file.blocks
        /\ \A i \in 2..Len(last.pre.wlog) :
              Intact(last.pre.wlog, i)
                 => ReadsBackFrom(file, last.pre.wlog[i].p, last.pre.wlog[i].off)

\* The last call opened the file that the handle held before it had written:
\* same directory entry, still in the directory
OpenedWrittenFile ==
    /\ last.op = "OpenFile"
    /\ last.err = nil
    /\ last.pre.file.open
    /\ last.pre.file.attached
    /\ last.pre.file.entry = file.entry

\* The first HeaderSize bytes of the file, as the handle that wrote it reads
\* them, are the bytes toBytes yields for a header made by NewPlus3DosHeader
\* and SetBasicHeader
StartsWithHeader(f) ==
    /\ f.size >= HeaderSize
    /\ \E r \in {ReadAt(f, allocated, Tracks, HeaderSize, 0)} :
          /\ r.err = nil
          /\ Len(r.data) = 1
          /\ r.data[1].src \in HeaderBuffers
          /\ r.data[1].from = 0

\* C12: OpenFile on a file whose first 128 bytes are a header made by
\* NewPlus3DosHeader and SetBasicHeader and written with toBytes yields a
\* headered handle with the cursor at offset 128; a file that does not start
\* with a header is opened unheadered with the cursor at offset 0.
C12_OpenDetectsHeader ==
    OpenedWrittenFile =>
        IF StartsWithHeader(last.pre.file)
        THEN file.isHeadered /\ file.position = HeaderSize
        ELSE ~file.isHeadered /\ file.position = 0

\* C13: OpenFile(name, false) fails with file not found and leaves the
\* directory unchanged when no live entry has that name; OpenFile(name, true)
\* fails, creating no entry and opening nothing, when a live entry of that
\* name exists.
C13_OpenFileErrors ==
    last.op = "OpenFile" =>
        /\ (~last.createNew /\ LiveNamed(last.pre.Entries, last.name) = {})
              => /\ last.err = "file not found"
                 /\ Entries = last.pre.Entries
                 /\ file = last.pre.file
        /\ (last.createNew /\ LiveNamed(last.pre.Entries, last.name) # {})
              => /\ last.err # nil
                 /\ Entries = last.pre.Entries
                 /\ file = last.pre.file

\* The entry carries the read-only attribute, in either of its two encodings
IsReadOnly(de) ==
    \/ ReadFromDirectoryEntry(NoAttributes, de).ReadOnly
    \/ GetAttributes(de).readOnly

\* Write or WriteAt was called with a one-sector buffer, the size for which
\* nothing else makes the call fail, on a handle whose entry is live and
\* read-only
WroteToReadOnly ==
    /\ last.op \in {"Write", "WriteAt"}
    /\ last.p.len = BytesPerSector
    /\ last.pre.file.attached
    /\ Live(EntryAt(Entries, last.pre.file.entry))
    /\ IsReadOnly(EntryAt(Entries, last.pre.file.entry))

\* C14: a handle opened on a file whose directory entry carries the read-only
\* attribute rejects Write and WriteAt with an error, writes zero bytes, and
\* changes neither the file's size, block list and position nor any sector or
\* allocation state of the image.
C14_ReadOnlyRejectsWrites ==
    WroteToReadOnly =>
        /\ last.err # nil
        /\ last.n = 0
        /\ file = last.pre.file
        /\ allocated = last.pre.allocated
        /\ Tracks = last.pre.Tracks
        /\ freeBlocks = last.pre.freeBlocks

\* n bytes in 128-byte records, the last one possibly partial
RecordsOf(n) == (n \div 128) + (IF n % 128 = 0 THEN 0 ELSE 1)

\* The 16-bit little-endian number in the first two bytes of AllocationBlocks
RecordedBlockCount(de) == de.AllocationBlocks[1] + Uint8 * de.AllocationBlocks[2]

\* Close was called on a writable handle whose entry is in the directory
ClosedWritable ==
    /\ last.op = "Close"
    /\ last.pre.file.attached
    /\ ~last.pre.file.readOnly

\* C17: after Close on a writable handle whose file size is n bytes, the
\* owning directory entry records ceil(n/128) as its logical size and the
\* file's block count, no other directory entry is changed, and nothing is
\* saved to the sectors of the image.
C17_CloseRecordsSize ==
    ClosedWritable =>
        /\ last.err = nil
        /\ EntryAt(Entries, file.entry).LogicalSize = RecordsOf(file.size)
        /\ RecordedBlockCount(EntryAt(Entries, file.entry)) = Len(file.blocks)
        /\ \A i \in Slots \ {file.entry} :
              EntryAt(Entries, i) = EntryAt(last.pre.Entries, i)
        /\ file = last.pre.file
        /\ Tracks = last.pre.Tracks
        /\ allocated = last.pre.allocated

\* A file of 612 bytes in one block was closed: 5 records, the last partial
C17_Witness ==
    /\ ClosedWritable
    /\ file.size = 612
    /\ Len(file.blocks) = 1
    /\ EntryAt(Entries, file.entry).LogicalSize = 5
    /\ RecordedBlockCount(EntryAt(Entries, file.entry)) = 1

----------------------------------------------------------------------------
(* Claims about the handle as a stream (SpecHandle) *)

\* The position a Seek call asks for
SeekTarget ==
    IF last.whence = SeekStart THEN last.offset
    ELSE IF last.whence = SeekCurrent THEN last.pre.file.position + last.offset
    ELSE last.pre.file.size + last.offset

\* C15: Seek(offset, whence) sets the position to offset (SeekStart),
\* position+offset (SeekCurrent) or size+offset (SeekEnd) and returns it; when
\* that position is negative or whence is none of the three it returns an
\* error and leaves the position unchanged; a position beyond the file size
\* is accepted.
C15_Seek ==
    last.op = "Seek" =>
        IF last.whence \in {SeekStart, SeekCurrent, SeekEnd} /\ SeekTarget >= 0
        THEN /\ last.err = nil
             /\ last.ret = SeekTarget
             /\ file = [last.pre.file EXCEPT !.position = SeekTarget]
        ELSE /\ last.err # nil
             /\ file = last.pre.file

\* After a one-sector write, which leaves the position at 512, a seek was
\* rejected
C15_Witness ==
    /\ last.op = "Seek"
    /\ last.err # nil
    /\ last.pre.file.size = BytesPerSector
    /\ file.position = BytesPerSector

\* After a one-sector write, Seek(100, SeekEnd) moved the position beyond the
\* end of the file
C15_WitnessBeyond ==
    /\ last.op = "Seek"
    /\ last.whence = SeekEnd
    /\ last.err = nil
    /\ file.size = BytesPerSector
    /\ file.position = BytesPerSector + 100

\* C16: for a file of size n, Read/ReadAt at a position >= n returns 0 bytes
\* and end-of-stream; a buffer larger than the bytes left at pos < n gets
\* exactly the n - pos bytes left, with end-of-stream; a read inside the file
\* returns the requested number of bytes and no error; Read advances the
\* position by the number of bytes returned.
C16_ReadCounts ==
    last.op \in {"Read", "ReadAt"} =>
        LET n == last.pre.file.size
            pos == last.off
        IN /\ pos >= n => last.n = 0 /\ last.err = EOF
           /\ (pos < n /\ last.plen > n - pos) => last.n = n - pos /\ last.err = EOF
           /\ (pos < n /\ last.plen <= n - pos) => last.n = last.plen /\ last.err = nil
           /\ last.op = "Read" =>
                 file = [last.pre.file EXCEPT !.position = @ + last.n]
           /\ last.op = "ReadAt" => file = last.pre.file

\* A Read in the middle of a one-sector file returned the bytes left, fewer
\* than the buffer holds, with end-of-stream, and moved the position to the end
C16_Witness ==
    /\ last.op = "Read"
    /\ last.off > 0
    /\ last.n > 0
    /\ last.n < last.plen
    /\ last.err = EOF
    /\ file.position = file.size

----------------------------------------------------------------------------
(* Claims about sector access (SpecAlloc) *)

\* The coordinates are those of a sector of the fixed geometry
ValidCoords(c) ==
    /\ c[1] \in 0..(TracksPerSide - 1)
    /\ c[2] \in 0..(SectorsPerTrack - 1)
    /\ c[3] \in 0..(SidesPerDisk - 1)

\* The number of the sector at valid coordinates, counted from the start of
\* the disk
SectorNumber(c) == (c[3] * TracksPerSide + c[1]) * SectorsPerTrack + c[2]

\* GetSectorData was called right after a successful SetSectorData, at the
\* same coordinates
ReadBackSector ==
    /\ last.op = "GetSectorData"
    /\ last.prev.op = "SetSectorData"
    /\ last.prev.err = nil
    /\ last.prev.coords = last.coords

\* C18: for every valid (track, sector, side) and every buffer of exactly 512
\* bytes, SetSectorData followed by GetSectorData at the same coordinates
\* returns the identical bytes, and the contents of every other sector are
\* unchanged.
C18_SectorRoundTrip ==
    /\ (/\ last.op = "SetSectorData"
        /\ ValidCoords(last.coords)
        /\ last.data.len = BytesPerSector)
          => /\ last.err = nil
             /\ \A l \in (0..(TotalSectors - 1)) \ {SectorNumber(last.coords)} :
                   SectorContent(Tracks, l) = SectorContent(last.pre.Tracks, l)
    /\ ReadBackSector => last.err = nil /\ last.ret = last.prev.data

\* Sector 6 of track 1 was written and read back while sector 6 of track 0
\* holds other bytes
C18_Witness ==
    /\ ReadBackSector
    /\ last.coords = <<1, 6, 0>>
    /\ last.ret = last.prev.data
    /\ SectorContent(Tracks, 6) # ZeroSector
    /\ SectorContent(Tracks, 6) # last.ret

\* C19: GetSectorData at a valid coordinate returns data if and only if the
\* sector is marked allocated, and an error otherwise; a successful
\* SetSectorData on an unallocated sector marks exactly that sector allocated
\* and changes the allocation state of no other; SetSectorData on an
\* allocated sector succeeds.
C19_SectorAccessAndAllocation ==
    /\ (last.op = "GetSectorData" /\ ValidCoords(last.coords))
          => /\ last.err = nil <=> SectorNumber(last.coords) \in last.pre.allocated
             /\ allocated = last.pre.allocated
             /\ Tracks = last.pre.Tracks
    /\ (/\ last.op = "SetSectorData"
        /\ last.err = nil
        /\ SectorNumber(last.coords) \notin last.pre.allocated)
          => allocated = last.pre.allocated \cup {SectorNumber(last.coords)}
    /\ (/\ last.op = "SetSectorData"
        /\ ValidCoords(last.coords)
        /\ last.data.len = BytesPerSector
        /\ SectorNumber(last.coords) \in last.pre.allocated)
          => last.err = nil /\ allocated = last.pre.allocated

\* A sector that was written and then freed is read: the call fails although
\* the sector still holds the bytes
C19_Witness ==
    /\ last.op = "GetSectorData"
    /\ ValidCoords(last.coords)
    /\ last.err = "attempting to read unallocated sector"
    /\ SectorContent(Tracks, SectorNumber(last.coords)) # ZeroSector

\* The range start..start+count-1 lies inside the bitmap
InRange(start, count) == start >= 0 /\ start + count <= TotalSectors

\* FreeSectors was called right after a successful AllocateSectors of the
\* same range
FreedAfterAllocate ==
    /\ last.op = "FreeSectors"
    /\ last.prev.op = "AllocateSectors"
    /\ last.prev.err = nil
    /\ last.prev.start = last.start
    /\ last.prev.count = last.count

\* C21: for an in-range sector range that is entirely free,
\* AllocateSectors(start, count) followed by FreeSectors(start, count)
\* restores GetFreeSpace() and the bitmap to what they were before the
\* allocation.
C21_AllocateThenFreeRestores ==
    /\ (/\ last.op = "AllocateSectors"
        /\ InRange(last.start, last.count)
        /\ SectorRange(last.start, last.count) \cap last.pre.allocated = {})
          => /\ last.err = nil
             /\ GetFreeSpace(allocated) = GetFreeSpace(last.pre.allocated) - last.count
    /\ FreedAfterAllocate
          => /\ last.err = nil
             /\ allocated = last.prev.allocated
             /\ GetFreeSpace(allocated) = GetFreeSpace(last.prev.allocated)

\* Two sectors were allocated and freed again on a bitmap that holds other
\* allocated sectors
C21_Witness ==
    /\ FreedAfterAllocate
    /\ last.count = 2
    /\ last.prev.allocated # {}
    /\ GetFreeSpace(last.pre.allocated) = GetFreeSpace(allocated) - 2

\* FreeSectors was called twice in a row on the same range
FreedTwice ==
    /\ last.op = "FreeSectors"
    /\ last.prev.op = "FreeSectors"
    /\ last.prev.start = last.start
    /\ last.prev.count = last.count

\* C22: FreeSectors on an in-range range succeeds whether or not the sectors
\* are allocated and leaves them all free, so that a second application
\* changes nothing; with a range not entirely inside [0, totalSectors) it
\* returns an error and changes no bitmap entry.
C22_FreeSectorsIdempotent ==
    /\ last.op = "FreeSectors"
          => IF InRange(last.start, last.count)
             THEN /\ last.err = nil
                  /\ allocated = last.pre.allocated \ SectorRange(last.start, last.count)
             ELSE /\ last.err # nil
                  /\ allocated = last.pre.allocated
    /\ (FreedTwice /\ InRange(last.start, last.count))
          => last.err = nil /\ allocated = last.pre.allocated

\* The second of two FreeSectors calls on a range the first one had freed a
\* sector of
C22_Witness ==
    /\ FreedTwice
    /\ last.err = nil
    /\ SectorRange(last.start, last.count) \cap last.prev.allocated # {}
    /\ SectorRange(last.start, last.count) \cap allocated = {}

\* The sector offsets inside a block
BlockSectorOffsets == 0..(sectorsPerBlock - 1)

\* The sectors of a set of blocks
SectorsOf(blocks) == {blockMap(b) + s : b \in blocks, s \in BlockSectorOffsets}

\* DefragmentFile was called on a list of blocks that were allocated, as the
\* blocks of a file are, with every system block reserved
DefragmentedFile ==
    /\ last.op = "DefragmentFile"
    /\ Len(last.blocks) > 0
    /\ SeqRange(last.blocks) \cap last.pre.freeBlocks = {}
    /\ SectorsOf(SeqRange(last.blocks)) \subseteq last.pre.allocated
    /\ SystemBlocks \cap last.pre.freeBlocks = {}

\* C23: a successful DefragmentFile(oldBlocks) returns a list of the same
\* length whose block indices are consecutive, however fragmented the free
\* space is, marks every old block free, and leaves every block that is in
\* neither list in its prior allocation state.
C23_DefragmentFileContiguous ==
    (DefragmentedFile /\ last.err = nil)
    => /\ Len(last.ret) = Len(last.blocks)
       /\ \A i \in 2..Len(last.ret) : last.ret[i] = last.ret[i - 1] + 1
       /\ SeqRange(last.blocks) \subseteq freeBlocks
       /\ \A b \in (0..(totalBlocks - 1)) \ (SeqRange(last.blocks) \cup SeqRange(last.ret)) :
             /\ b \in freeBlocks <=> b \in last.pre.freeBlocks
             /\ \A l \in SectorsOf({b}) : l \in allocated <=> l \in last.pre.allocated

\* C24: after a successful DefragmentFile(oldBlocks) returning newBlocks, for
\* every position i and every sector offset within a block, that sector of
\* newBlocks[i] holds what the corresponding sector of oldBlocks[i] held
\* before the call.
C24_DefragmentFileCopies ==
    (last.op = "DefragmentFile" /\ last.err = nil)
    => /\ Len(last.ret) = Len(last.blocks)
       /\ \A i \in 1..Len(last.blocks) : \A s \in BlockSectorOffsets :
             SectorContent(Tracks, blockMap(last.ret[i]) + s)
                = SectorContent(last.pre.Tracks, blockMap(last.blocks[i]) + s)

\* C24, for blocks that a file holds: after a successful DefragmentFile of
\* old blocks that were not free before the call, every sector of newBlocks[i]
\* holds what the corresponding sector of oldBlocks[i] held before the call.
C24_DefragmentFileCopiesHeldBlocks ==
    (/\ last.op = "DefragmentFile"
     /\ last.err = nil
     /\ SeqRange(last.blocks) \cap last.pre.freeBlocks = {})
    => /\ Len(last.ret) = Len(last.blocks)
       /\ \A i \in 1..Len(last.blocks) : \A s \in BlockSectorOffsets :
             SectorContent(Tracks, blockMap(last.ret[i]) + s)
                = SectorContent(last.pre.Tracks, blockMap(last.blocks[i]) + s)

\* A held block whose two sectors held different bytes was moved
C24_Witness ==
    /\ last.op = "DefragmentFile"
    /\ last.err = nil
    /\ SeqRange(last.blocks) \cap last.pre.freeBlocks = {}
    /\ Len(last.ret) > 0
    /\ SectorContent(Tracks, blockMap(last.ret[1])) # ZeroSector
    /\ SectorContent(Tracks, blockMap(last.ret[1]))
          # SectorContent(Tracks, blockMap(last.ret[1]) + 1)
    /\ SectorContent(Tracks, blockMap(last.ret[1]))
          = SectorContent(last.pre.Tracks, blockMap(last.blocks[1]))

\* C25: if DefragmentFile fails, every old block is still allocated with its
\* original content, and no block other than the old blocks is left allocated
\* by the call.
C25_DefragmentFileFailureLeavesState ==
    (DefragmentedFile /\ last.err # nil)
    => /\ SeqRange(last.blocks) \cap freeBlocks = {}
       /\ SectorsOf(SeqRange(last.blocks)) \subseteq allocated
       /\ \A l \in SectorsOf(SeqRange(last.blocks)) :
             SectorContent(Tracks, l) = SectorContent(last.pre.Tracks, l)
       /\ \A b \in (0..(totalBlocks - 1)) \ SeqRange(last.blocks) :
             /\ b \in last.pre.freeBlocks => b \in freeBlocks
             /\ \A l \in SectorsOf({b}) : l \notin last.pre.allocated => l \notin allocated

----------------------------------------------------------------------------
(* The sector map: conversions between linear and physical sector numbers *)

MapTracks == (-1)..TracksPerSide
MapSectors == (-1)..SectorsPerTrack
MapSides == (-1)..SidesPerDisk
MapLinears == (-1)..maxSectors

\* A new disk image and the argument of the first conversion
InitMap ==
    /\ allocated = newSectorAllocation
    /\ freeBlocks = newFileAllocation
    /\ Tracks = <<>>
    /\ Header = NewDiskHeader
    /\ Modified = TRUE
    /\ dc = NoDiskCheck
    /\ Entries = NewDirectory
    /\ modified = FALSE
    /\ file = NoFile
    /\ wlog = <<>>
    /\ last \in [op : {"coords"}, coords : MapTracks \X MapSectors \X MapSides]
                 \cup [op : {"linear"}, linear : MapLinears]
    /\ steps = 0

\* PhysicalToLinear of the given coordinates, or of the coordinates
\* LinearToPhysical just returned
DoPhysicalToLinear ==
    /\ steps < MaxSteps
    /\ \/ last.op = "coords"
       \/ last.op = "LinearToPhysical" /\ last.err = nil
    /\ \E c \in {IF last.op = "coords" THEN last.coords
                  ELSE <<last.track, last.sector, last.side>>} :
          \E r \in {PhysicalToLinear(c[1], c[2], c[3])} :
             last' = [op |-> "PhysicalToLinear", coords |-> c, err |-> r.err,
                      linear |-> r.linear,
                      of |-> IF last.op = "coords" THEN NoOp
                             ELSE [op |-> last.op, linear |-> last.linear]]
    /\ steps' = steps + 1
    /\ UNCHANGED <<allocated, freeBlocks, Tracks, Entries, modified, file, wlog>>
    /\ ImageUnchanged
    /\ UNCHANGED dc

\* LinearToPhysical of the given number, or of the number PhysicalToLinear
\* just returned
DoLinearToPhysical ==
    /\ steps < MaxSteps
    /\ \/ last.op = "linear"
       \/ last.op = "PhysicalToLinear" /\ last.err = nil
    /\ \E r \in {LinearToPhysical(last.linear)} :
          last' = [op |-> "LinearToPhysical", linear |-> last.linear, err |-> r.err,
                   track |-> r.track, sector |-> r.sector, side |-> r.side,
                   of |-> IF last.op = "linear" THEN NoOp
                          ELSE [op |-> last.op, coords |-> last.coords]]
    /\ steps' = steps + 1
    /\ UNCHANGED <<allocated, freeBlocks, Tracks, Entries, modified, file, wlog>>
    /\ ImageUnchanged
    /\ UNCHANGED dc

NextMap ==
    \/ DoPhysicalToLinear
    \/ DoLinearToPhysical

SpecMap == InitMap /\ [][NextMap]_vars

\* C20: for every track in 0..39, sector in 0..8 and side 0,
\* LinearToPhysical(PhysicalToLinear(track, sector, side)) returns (track,
\* sector, side); for every linear index in 0..359
\* PhysicalToLinear(LinearToPhysical(linear)) returns linear; a coordinate or
\* an index outside those ranges yields an error instead of a clamped value.
C20_SectorMapRoundTrip ==
    /\ last.op = "PhysicalToLinear"
          => /\ last.err = nil <=> /\ last.coords[1] \in 0..39
                                   /\ last.coords[2] \in 0..8
                                   /\ last.coords[3] = 0
             /\ last.of.op = "LinearToPhysical"
                   => last.err = nil /\ last.linear = last.of.linear
    /\ last.op = "LinearToPhysical"
          => /\ last.err = nil <=> last.linear \in 0..359
             /\ last.of.op = "PhysicalToLinear"
                   => /\ last.err = nil
                      /\ <<last.track, last.sector, last.side>> = last.of.coords

\* The last sector of the disk, (39, 8, 0), came back from its linear number
\* 359
C20_Witness ==
    /\ last.op = "LinearToPhysical"
    /\ last.of.op = "PhysicalToLinear"
    /\ last.of.coords = <<39, 8, 0>>
    /\ last.linear = 359
    /\ <<last.track, last.sector, last.side>> = <<39, 8, 0>>

----------------------------------------------------------------------------
(* The file header: building a header and damaging one of its bytes *)

HeaderFileTypes == {0, 1, 2, 3, 4}
HeaderLengths == {0, 1000, 6912}
HeaderParams1 == {10, 32768}
HeaderParams2 == {950, 65535}
\* What is added, modulo 256, to the byte that is damaged
ByteDeltas == {1, 26, 128, 255}

InitHeader == InitAlloc

\* NewPlus3DosHeader, SetBasicHeader, UpdateChecksum, Validate
DoBuildHeader ==
    /\ last.op = "none"
    /\ \E fileType \in HeaderFileTypes, length \in HeaderLengths,
          param1 \in HeaderParams1, param2 \in HeaderParams2 :
          \E r \in {SetBasicHeader(NewPlus3DosHeader, fileType, length, param1, param2)} :
            \E h \in {IF r.err = nil THEN UpdateChecksum(r.header) ELSE r.header} :
               last' = [op |-> "BuildHeader", fileType |-> fileType, length |-> length,
                        param1 |-> param1, param2 |-> param2, seterr |-> r.err,
                        header |-> h, bytes |-> toBytes(h), err |-> Validate(h)]
    /\ UNCHANGED <<allocated, freeBlocks, Tracks, Entries, modified, file, wlog, steps>>
    /\ ImageUnchanged
    /\ UNCHANGED dc

\* One byte of the header bytes is replaced by a different value; FromBytes and
\* Validate on the result
DoDamageByte ==
    /\ last.op = "BuildHeader"
    /\ last.seterr = nil
    /\ \E i \in 1..HeaderSize, d \in ByteDeltas :
          \E b \in {[last.bytes EXCEPT ![i] = (@ + d) % Uint8]} :
            \E h \in {headerOfBytes(b)} :
               last' = [op |-> "DamageByte", index |-> i - 1, built |-> last.bytes,
                        bytes |-> b, header |-> h, err |-> Validate(h)]
    /\ UNCHANGED <<allocated, freeBlocks, Tracks, Entries, modified, file, wlog, steps>>
    /\ ImageUnchanged
    /\ UNCHANGED dc

NextHeader == DoBuildHeader \/ DoDamageByte

SpecHeader == InitHeader /\ [][NextHeader]_vars

\* C26: every header built by NewPlus3DosHeader, SetBasicHeader (any of the
\* four file types) and UpdateChecksum passes Validate; changing any single one
\* of its 128 bytes to a different value, without recomputing the checksum,
\* makes Validate fail.
C26_HeaderChecksum ==
    /\ (last.op = "BuildHeader" /\ last.seterr = nil)
         => /\ last.err = nil
            /\ Len(last.bytes) = HeaderSize
            /\ headerOfBytes(last.bytes) = last.header
    /\ last.op = "DamageByte" => last.err # nil

\* A reserved byte of a valid header was changed: only the checksum notices
C26_Witness ==
    /\ last.op = "DamageByte"
    /\ last.index >= 23
    /\ last.index < HeaderSize - 1
    /\ last.bytes[last.index + 1] # last.built[last.index + 1]
    /\ Validate(headerOfBytes(last.built)) = nil
    /\ last.err = "header checksum verification failed"

----------------------------------------------------------------------------
(* File attributes: applying them to a directory entry and reading them back *)

\* Every FileAttributes value
AllAttributes ==
    [ReadOnly : BOOLEAN, System : BOOLEAN, Archived : BOOLEAN,
     UserF1 : BOOLEAN, UserF2 : BOOLEAN, UserF3 : BOOLEAN, UserF4 : BOOLEAN]

\* The entries attributes are applied to: the TEST.BAS of
\* TestDirectoryEntryAttributes, a short name, and an entry that carries
\* attribute bits already
AttrEntries ==
    {LoadedEntry(N_TEST_BAS, 0), LoadedEntry(N_A, 0),
     ApplyToDirectoryEntry([NoAttributes EXCEPT !.ReadOnly = TRUE, !.System = TRUE,
                                                !.UserF2 = TRUE, !.UserF4 = TRUE],
                           LoadedEntry(N_DATA_BIN, 0))}

InitAttr == InitAlloc

DoApplyToDirectoryEntry ==
    /\ last.op = "none"
    /\ \E fa \in AllAttributes, entry \in AttrEntries :
          last' = [op |-> "ApplyToDirectoryEntry", fa |-> fa, before |-> entry,
                   entry |-> ApplyToDirectoryEntry(fa, entry)]
    /\ UNCHANGED <<allocated, freeBlocks, Tracks, Entries, modified, file, wlog, steps>>
    /\ ImageUnchanged
    /\ UNCHANGED dc

\* readAttrs := &FileAttributes{}; readAttrs.ReadFromDirectoryEntry(entry)
DoReadFromDirectoryEntry ==
    /\ last.op = "ApplyToDirectoryEntry"
    /\ last' = [op |-> "ReadFromDirectoryEntry", applied |-> last.fa, entry |-> last.entry,
                fa |-> ReadFromDirectoryEntry(NoAttributes, last.entry)]
    /\ UNCHANGED <<allocated, freeBlocks, Tracks, Entries, modified, file, wlog, steps>>
    /\ ImageUnchanged
    /\ UNCHANGED dc

NextAttr == DoApplyToDirectoryEntry \/ DoReadFromDirectoryEntry

SpecAttr == InitAttr /\ [][NextAttr]_vars

\* C27: for every combination of the seven flags, ApplyToDirectoryEntry
\* followed by ReadFromDirectoryEntry returns the same seven flag values;
\* ReadOnly, System and Archived are the high bits of extension bytes 0, 1 and
\* 2, UserF1..UserF4 the high bits of name bytes 0..3.
C27_AttributesRoundTrip ==
    /\ last.op = "ApplyToDirectoryEntry"
         => /\ BitSet(last.entry.Extension[1], 7) = last.fa.ReadOnly
            /\ BitSet(last.entry.Extension[2], 7) = last.fa.System
            /\ BitSet(last.entry.Extension[3], 7) = last.fa.Archived
            /\ BitSet(last.entry.Name[1], 7) = last.fa.UserF1
            /\ BitSet(last.entry.Name[2], 7) = last.fa.UserF2
            /\ BitSet(last.entry.Name[3], 7) = last.fa.UserF3
            /\ BitSet(last.entry.Name[4], 7) = last.fa.UserF4
    /\ last.op = "ReadFromDirectoryEntry" => last.fa = last.applied

----------------------------------------------------------------------------
(* The host level: files are imported into the image and exported from it *)

MaxHostSteps == 2

\* The host files
HostFiles == {[src |-> "a", from |-> 0, len |-> n] : n \in ImportSizes}

\* The options of ImportBasicProgram, ImportCode, ImportScreen and ImportRaw,
\* and a header for a file type ImportFile does not know
ProgramOptions ==
    [AddHeader |-> TRUE, FileType |-> FileTypeProgram, LoadAddr |-> 0, Line |-> ImportLine]
CodeOptions ==
    [AddHeader |-> TRUE, FileType |-> FileTypeCode, LoadAddr |-> ImportLoadAddr, Line |-> 0]
ScreenOptions ==
    [AddHeader |-> TRUE, FileType |-> FileTypeCode, LoadAddr |-> ScreenLoadAddr, Line |-> 0]
ArrayOptions ==
    [AddHeader |-> TRUE, FileType |-> 1, LoadAddr |-> 0, Line |-> 0]
ImportOptions == {ProgramOptions, CodeOptions, ScreenOptions, ArrayOptions, NoOptions}

HostNames == {N_TEST_BAS, N_A}

InitHost == InitFile

DoImportFile ==
    /\ steps < MaxHostSteps
    /\ last.op \in {"none", "ImportFile"}
    /\ \E data \in HostFiles, diskPath \in HostNames, opts \in ImportOptions :
          \E r \in {ImportFile(Entries, freeBlocks, allocated, Tracks, data, diskPath, opts)} :
          /\ Entries' = r.Entries
          /\ freeBlocks' = r.freeBlocks
          /\ allocated' = r.allocated
          /\ Tracks' = r.Tracks
          /\ Wrote(r.wrote)
          /\ modified' = (modified \/ r.modified)
          /\ last' = [op |-> "ImportFile", data |-> data, diskPath |-> diskPath,
                      opts |-> opts, err |-> r.err]
    /\ steps' = steps + 1
    /\ UNCHANGED <<file, wlog>>
    /\ UNCHANGED dc

DoExportFile ==
    /\ last.op = "ImportFile"
    /\ \E diskPath \in HostNames, stripHeader \in BOOLEAN :
          \E r \in {ExportFile(Entries, freeBlocks, allocated, Tracks, diskPath, stripHeader)} :
          /\ Entries' = r.Entries
          /\ freeBlocks' = r.freeBlocks
          /\ allocated' = r.allocated
          /\ Tracks' = r.Tracks
          /\ Wrote(r.wrote)
          /\ modified' = (modified \/ r.modified)
          /\ last' = [op |-> "ExportFile", diskPath |-> diskPath,
                      stripHeader |-> stripHeader, err |-> r.err, out |-> r.out,
                      imported |-> last]
    /\ UNCHANGED <<file, wlog, steps>>
    /\ UNCHANGED dc

NextHost == DoImportFile \/ DoExportFile

SpecHost == InitHost /\ [][NextHost]_vars

\* C28: importing a host file as a BASIC program, as code or as a 6912-byte
\* screen (header prepended, data written, file closed) and then exporting it
\* with the header stripped yields the original bytes.
C28_ImportExportRoundTrip ==
    (/\ last.op = "ExportFile"
     /\ last.stripHeader
     /\ last.diskPath = last.imported.diskPath
     /\ \/ last.imported.opts \in {ProgramOptions, CodeOptions}
        \/ last.imported.opts = ScreenOptions /\ last.imported.data.len = 6912)
    => /\ last.imported.err = nil
       /\ last.err = nil
       /\ last.out = <<last.imported.data>>

----------------------------------------------------------------------------
(* DiskCheck *)

\* One error of dc.errors: its message and the numbers formatted into it
Violation(msg, at) == [msg |-> msg, at |-> at]

NoViolation == Violation(nil, <<>>)

\* The errors a loop adds, in the order of its iterations
Added(found) == SelectSeq(found, LAMBDA e : e # NoViolation)

checkDiskHeader(h) ==
    Added(<<IF h.Signature # DiskSignature
            THEN Violation("invalid disk image signature", <<>>) ELSE NoViolation,
            IF h.TracksNum # TracksPerSide
            THEN Violation("invalid track count", <<TracksPerSide, h.TracksNum>>)
            ELSE NoViolation,
            IF h.SidesNum # SidesPerDisk
            THEN Violation("invalid side count", <<SidesPerDisk, h.SidesNum>>)
            ELSE NoViolation,
            IF h.TrackSize # BytesPerSector * SectorsPerTrack
            THEN Violation("invalid track size",
                           <<BytesPerSector * SectorsPerTrack, h.TrackSize>>)
            ELSE NoViolation>>)

\* len(di.Tracks) is NumTracks and len(di.Tracks[i]) is TrackLength: no
\* operation replaces the slices NewDiskImage makes
checkTrackCount(h) ==
    LET expectedTracks == (h.TracksNum * h.SidesNum) % Uint8
    IN Added(<<IF NumTracks # expectedTracks
               THEN Violation("track data mismatch", <<expectedTracks, NumTracks>>)
               ELSE NoViolation>>)
       \o Added([k \in 1..NumTracks |->
                    IF TrackLength # h.TrackSize
                    THEN Violation("track size mismatch", <<k - 1, h.TrackSize, TrackLength>>)
                    ELSE NoViolation])

checkSectorSizes(h, alloc, tracks) ==
    Added([k \in 1..(h.TracksNum * SectorsPerTrack) |->
             LET t == (k - 1) \div SectorsPerTrack
                 s == (k - 1) % SectorsPerTrack
             IN With(GetSectorData(alloc, tracks, t, s, 0), LAMBDA r :
                   IF r.err # nil
                   THEN Violation("failed to read sector", <<s, t>>)
                   ELSE IF r.data.len # BytesPerSector
                        THEN Violation("invalid sector size", <<t, s, r.data.len>>)
                        ELSE NoViolation)])

checkDirectoryStructure(alloc, tracks) ==
    IF GetSectorData(alloc, tracks, 0, DirectorySector, 0).err # nil
    THEN <<Violation("cannot read directory sector", <<>>)>>
    ELSE Added([k \in 1..directorySectors |->
                   IF GetSectorData(alloc, tracks, 0, DirectorySector + k - 1, 0).err # nil
                   THEN Violation("directory sector not readable", <<DirectorySector + k - 1>>)
                   ELSE NoViolation])

FillerByte == 229       \* 0xe5

\* The values the sum of the bytes of a piece, modulo 256, can take: one
\* value for a piece of equal bytes, any value for a piece of a buffer whose
\* bytes are not fixed
ByteSums(data) ==
    IF data.src = "zero" THEN {0}
    ELSE IF data.src = "e5" THEN {(FillerByte * data.len) % Uint8}
    ELSE 0..(Uint8 - 1)

\* sum is the sum, modulo 256, of the bytes of the boot sector
checkBootSector(alloc, tracks, sum) ==
    IF GetSectorData(alloc, tracks, 0, 0, 0).err # nil
    THEN <<Violation("cannot read boot sector", <<>>)>>
    ELSE IF sum # 3
         THEN <<Violation("invalid boot sector checksum", <<>>)>>
         ELSE <<>>

checkUnusedSectors(h, alloc, tracks) ==
    Added([k \in 1..(h.TracksNum * SectorsPerTrack) |->
             LET t == (k - 1) \div SectorsPerTrack
                 s == (k - 1) % SectorsPerTrack
                 l == PhysicalToLinear(t, s, 0)
             IN IF l.err # nil THEN NoViolation
                ELSE IF IsSectorAllocated(alloc, l.linear).err # nil THEN NoViolation
                ELSE IF IsSectorAllocated(alloc, l.linear).allocated THEN NoViolation
                ELSE With(GetSectorData(alloc, tracks, t, s, 0), LAMBDA r :
                        IF r.err # nil THEN NoViolation
                        ELSE IF r.data.src # "e5"
                             THEN Violation("unallocated sector contains non-filler data",
                                            <<t, s>>)
                             ELSE NoViolation)])

\* The entries the strict checks look at
Checked(de) == ~IsDeleted(de) /\ ~IsUnused(de)

\* block is a byte and len(allocated) is TotalSectors
checkFileConsistency(entries) ==
    Added([k \in 1..(MaxDirectoryEntries * 17) |->
             LET i == (k - 1) \div 17
                 j == (k - 1) % 17
                 entry == EntryAt(entries, i)
             IN IF ~Checked(entry) THEN NoViolation
                ELSE IF j < 16
                     THEN IF /\ entry.AllocationBlocks[j + 1] # 0
                             /\ entry.AllocationBlocks[j + 1] >= TotalSectors
                          THEN Violation("references invalid allocation block",
                                         <<i, entry.AllocationBlocks[j + 1]>>)
                          ELSE NoViolation
                     ELSE IF entry.LogicalSize * 128
                               > BytesPerSector * Len(entry.AllocationBlocks)
                          THEN Violation("size inconsistency", <<i, entry.LogicalSize * 128>>)
                          ELSE NoViolation])

validCharacters(str) ==
    \A k \in 1..Len(str) : str[k] = Space \/ ~(str[k] < 33 \/ str[k] > 126)

validateDirectoryEntry(entry, index) ==
    IF ~validCharacters(entry.Name)
    THEN Violation("invalid character in filename", <<index>>)
    ELSE IF ~validCharacters(entry.Extension)
         THEN Violation("invalid character in extension", <<index>>)
         ELSE IF entry.Extent > 31
              THEN Violation("invalid extent number", <<index>>)
              ELSE IF entry.RecordCount > 128
                   THEN Violation("invalid record count", <<index>>)
                   ELSE NoViolation

checkDirectoryEntries(entries) ==
    Added([k \in 1..MaxDirectoryEntries |->
             IF /\ Checked(EntryAt(entries, k - 1))
                /\ \E j \in 0..(k - 2) :
                      /\ Checked(EntryAt(entries, j))
                      /\ GetFilename(EntryAt(entries, j)) = GetFilename(EntryAt(entries, k - 1))
             THEN Violation("duplicate filename found", <<k - 1>>)
             ELSE NoViolation])
    \o Added([k \in 1..MaxDirectoryEntries |->
                 IF Checked(EntryAt(entries, k - 1))
                 THEN validateDirectoryEntry(EntryAt(entries, k - 1), k - 1)
                 ELSE NoViolation])

\* DiskCheck.Validate: every check appends to the errors the validator
\* already holds, and the whole list is returned
DiskCheckValidate(d, h, alloc, tracks, entries, bootSum) ==
    d.errors
    \o checkDiskHeader(h)
    \o checkTrackCount(h)
    \o checkSectorSizes(h, alloc, tracks)
    \o checkDirectoryStructure(alloc, tracks)
    \o (IF d.level = ValidationStrict
        THEN checkBootSector(alloc, tracks, bootSum)
             \o checkUnusedSectors(h, alloc, tracks)
             \o checkFileConsistency(entries)
             \o checkDirectoryEntries(entries)
        ELSE <<>>)

----------------------------------------------------------------------------
(* Saving the image *)

ErrInvalidTrack == "invalid track"
ErrInvalidSide == "invalid side"

GetTrackInfo(h, track, side) ==
    IF track < 0 \/ track >= h.TracksNum THEN ErrInvalidTrack
    ELSE IF side < 0 \/ side >= h.SidesNum THEN ErrInvalidSide
    ELSE nil

\* Creator holds the text copied into it: it is 14 zero bytes when the text
\* is empty
validateHeaderFormat(h) ==
    IF h.Signature # DiskSignature THEN "invalid disk image signature"
    ELSE IF h.Creator = "" THEN "creator field is empty"
    ELSE IF h.TracksNum = 0 THEN "number of tracks cannot be zero"
    ELSE IF h.SidesNum = 0 THEN "number of sides cannot be zero"
    ELSE nil

\* Called once validateHeaderFormat has passed, so that TracksNum is not 0
validateTrackData(h) ==
    LET expectedTracks == (h.TracksNum * h.SidesNum) % Uint8
        trackErr(i) ==
            IF TrackLength # h.TrackSize THEN "invalid track size"
            ELSE IF TrackLength % BytesPerSector # 0
                 THEN "track size is not a multiple of sector size"
                 ELSE GetTrackInfo(h, i % h.TracksNum, i \div h.TracksNum)
        bad == {i \in 0..(NumTracks - 1) : trackErr(i) # nil}
    IN IF NumTracks # expectedTracks THEN "unexpected number of tracks"
       ELSE IF bad = {} THEN nil
       ELSE trackErr(CHOOSE i \in bad : \A j \in bad : i <= j)

validateDiskParameters(h) ==
    IF h.TracksNum # TracksPerSide THEN "invalid number of tracks for +3DOS format"
    ELSE IF h.SidesNum # SidesPerDisk THEN "invalid number of sides for +3DOS format"
    ELSE IF h.TrackSize # BytesPerSector * SectorsPerTrack
         THEN "invalid track size for +3DOS format"
         ELSE nil

ValidateFormat(h) ==
    IF validateHeaderFormat(h) # nil THEN validateHeaderFormat(h)
    ELSE IF validateTrackData(h) # nil THEN validateTrackData(h)
    ELSE validateDiskParameters(h)

GetTrackBounds(track, side) ==
    LET l == PhysicalToLinear(track, 0, side)
    IN IF l.err # nil THEN [err |-> l.err, start |-> 0, end |-> 0]
       ELSE [err |-> nil, start |-> l.linear, end |-> l.linear + SectorsPerTrack - 1]

\* The []bool of the track, as the set of its true indices
GetTrackAllocation(alloc, track, side) ==
    LET b == GetTrackBounds(track, side)
    IN IF b.err # nil THEN [err |-> b.err, trackAlloc |-> {}]
       ELSE [err |-> nil,
             trackAlloc |-> {i \in 0..(b.end - b.start) : b.start + i \in alloc}]

\* Every track counts as allocated
containsTrueAlways(slice) == TRUE

containsTrue(slice) == slice # {}

GapLength == 82         \* 0x52

TrackSignature == "Track-Info\r\n"

\* The track information block of a track; FDCStatus1 of sector i is 0 when
\* the sector is allocated and 1 when it is not.  The 12 characters of the
\* signature are copied into the 13-byte field.
createTrackInfo(h, alloc, track, side) ==
    LET linear(i) == PhysicalToLinear(track, i, side)
        bad == {i \in 0..(SectorsPerTrack - 1) :
                   \/ linear(i).err # nil
                   \/ IsSectorAllocated(alloc, linear(i).linear).err # nil}
        first == CHOOSE i \in bad : \A j \in bad : i <= j
    IN IF track >= h.TracksNum \/ track < 0
       THEN [err |-> "track number out of range", info |-> <<>>]
       ELSE IF side >= h.SidesNum \/ side < 0
            THEN [err |-> "side number out of range", info |-> <<>>]
            ELSE IF bad # {}
                 THEN [err |-> IF linear(first).err # nil THEN linear(first).err
                               ELSE IsSectorAllocated(alloc, linear(first).linear).err,
                       info |-> <<>>]
                 ELSE [err |-> nil,
                       info |-> [Signature |-> TrackSignature,
                                 TrackNum |-> track % Uint8, SideNum |-> side % Uint8,
                                 SectorSize |-> 2,
                                 SectorsNum |-> SectorsPerTrack, GapLength |-> GapLength,
                                 FillerByte |-> FillerByte,
                                 SectorInfo |->
                                     [i \in 0..(SectorsPerTrack - 1) |->
                                         [Track |-> track % Uint8, Side |-> side % Uint8,
                                          SectorID |-> (i + 1) % Uint8, SectorSize |-> 2,
                                          DataLength |-> BytesPerSector,
                                          FDCStatus1 |->
                                              IF linear(i).linear \in alloc THEN 0 ELSE 1,
                                          FDCStatus2 |-> 0]]]]

\* di.Tracks[i]: the bytes of the nine sectors of track i, in order
TrackData(tracks, i) ==
    [s \in 1..SectorsPerTrack |-> SectorContent(tracks, i * SectorsPerTrack + s - 1)]

\* make([]byte, size) filled with the filler byte
FillerTrack(size) == <<[src |-> "e5", from |-> 0, len |-> size]>>

\* One turn of the loop of Save over the tracks: what it writes, and the
\* error it returns with
saveTrack(h, alloc, tracks, i) ==
    LET track == i % h.TracksNum
        side == i \div h.TracksNum
        ti == createTrackInfo(h, alloc, track, side)
        b == GetTrackBounds(track, side)
        ta == GetTrackAllocation(alloc, track, side)
    IN IF ti.err # nil THEN [err |-> ti.err, written |-> <<>>]
       ELSE IF b.err # nil
            THEN [err |-> b.err, written |-> <<[kind |-> "info", bytes |-> ti.info]>>]
       ELSE IF ta.err # nil
            THEN [err |-> ta.err, written |-> <<[kind |-> "info", bytes |-> ti.info]>>]
       ELSE [err |-> nil,
             written |-> <<[kind |-> "info", bytes |-> ti.info],
                           [kind |-> "data",
                            bytes |-> IF ~containsTrue(ta.trackAlloc)
                                      THEN FillerTrack(h.TrackSize)
                                      ELSE TrackData(tracks, i)]>>]

\* The writes of tracks lo to hi, in order, up to the first turn that fails
RECURSIVE saveTracks(_, _, _, _, _)
saveTracks(h, alloc, tracks, lo, hi) ==
    IF lo > hi THEN [err |-> nil, written |-> <<>>]
    ELSE IF lo = hi THEN saveTrack(h, alloc, tracks, lo)
    ELSE LET mid == (lo + hi) \div 2
         IN With(saveTracks(h, alloc, tracks, lo, mid), LAMBDA l :
               IF l.err # nil THEN l
               ELSE With(saveTracks(h, alloc, tracks, mid + 1, hi), LAMBDA r :
                       [err |-> r.err, written |-> l.written \o r.written]))

\* Save to a writer that takes every byte: out is what reached the writer
Save(h, alloc, tracks, mod) ==
    IF ValidateFormat(h) # nil
    THEN [err |-> ValidateFormat(h), out |-> <<>>, Modified |-> mod]
    ELSE LET trackCount == (h.TracksNum * h.SidesNum) % Uint8
         IN With(saveTracks(h, alloc, tracks, 0, trackCount - 1), LAMBDA w :
               [err |-> w.err,
                out |-> <<[kind |-> "header", bytes |-> h]>> \o w.written,
                Modified |-> IF w.err = nil THEN FALSE ELSE mod])

----------------------------------------------------------------------------
(* Image level: sectors are written and freed, the header's track count is
   set, the image is validated and saved *)

MaxImageSteps == 4

TrackCounts == {0, TracksPerSide - 1, TracksPerSide}

Levels == {ValidationBasic, ValidationStrict}

InitImage == InitAlloc

\* The image and the validator as they are before an operation
ImageSnapshot ==
    [allocated |-> allocated, Tracks |-> Tracks, Header |-> Header,
     Modified |-> Modified, Entries |-> Entries, errors |-> dc.errors]

DoNewDiskCheck ==
    /\ steps < MaxImageSteps
    /\ \E level \in Levels :
          /\ dc' = [held |-> TRUE, level |-> level, errors |-> <<>>]
          /\ last' = [op |-> "NewDiskCheck", level |-> level]
    /\ steps' = steps + 1
    /\ UNCHANGED <<allocated, freeBlocks, Tracks>>
    /\ DirUnchanged
    /\ ImageUnchanged

DoValidate ==
    /\ steps < MaxImageSteps
    /\ dc.held
    /\ \E bootSum \in ByteSums(SectorContent(Tracks, 0)) :
          \E r \in {DiskCheckValidate(dc, Header, allocated, Tracks, Entries, bootSum)} :
          /\ dc' = [dc EXCEPT !.errors = r]
          /\ last' = [op |-> "Validate", level |-> dc.level, errors |-> r,
                      pre |-> ImageSnapshot]
    /\ steps' = steps + 1
    /\ UNCHANGED <<allocated, freeBlocks, Tracks>>
    /\ DirUnchanged
    /\ ImageUnchanged

\* di.Header.TracksNum = n
DoSetTracksNum ==
    /\ steps < MaxImageSteps
    /\ \E n \in TrackCounts :
          /\ Header' = [Header EXCEPT !.TracksNum = n]
          /\ last' = [op |-> "SetTracksNum", n |-> n]
    /\ steps' = steps + 1
    /\ UNCHANGED <<allocated, freeBlocks, Tracks, Modified, dc>>
    /\ DirUnchanged

DoSave ==
    /\ steps < MaxImageSteps
    /\ \E r \in {Save(Header, allocated, Tracks, Modified)} :
          /\ Modified' = r.Modified
          /\ last' = [op |-> "Save", err |-> r.err, out |-> r.out, pre |-> ImageSnapshot]
    /\ steps' = steps + 1
    /\ UNCHANGED <<allocated, freeBlocks, Tracks, Header, dc>>
    /\ DirUnchanged

NextImage ==
    \/ DoSetSectorData
    \/ DoFreeSectors
    \/ DoSetTracksNum
    \/ DoNewDiskCheck
    \/ DoValidate
    \/ DoSave

SpecImage == InitImage /\ [][NextImage]_vars

\* A freshly created image that nothing was stored in
FreshImage(s) ==
    /\ s.allocated = {}
    /\ s.Tracks = <<>>
    /\ s.Header = NewDiskHeader
    /\ s.Entries = NewDirectory

\* C29: a new validator run on a freshly created, never-populated image
\* reports no violation at the Basic level and none at the Strict level, and
\* a validator run on an image whose header has track count 0 reports at
\* least one violation.
C29_ValidateFreshImage ==
    last.op = "Validate"
    => /\ (FreshImage(last.pre) /\ last.pre.errors = <<>>) => last.errors = <<>>
       /\ last.pre.Header.TracksNum = 0 => Len(last.errors) >= 1

\* The tracks of which at least one sector is allocated
LiveTracks(alloc) ==
    {i \in 0..(NumTracks - 1) :
        \E s \in 0..(SectorsPerTrack - 1) : i * SectorsPerTrack + s \in alloc}

\* C30: Save validates the format first and writes nothing when the
\* validation fails; otherwise it writes, for each of the 40 tracks in order,
\* the track's bytes when at least one of its sectors is allocated and a full
\* track of the filler byte 0xE5 when none is, and leaves Modified false.
C30_Save ==
    last.op = "Save"
    => IF last.pre.Header # NewDiskHeader
       THEN /\ last.err # nil
            /\ last.out = <<>>
            /\ Modified = last.pre.Modified
       ELSE /\ last.err = nil
            /\ Modified = FALSE
            /\ Len(last.out) = 1 + 2 * TracksPerSide
            /\ last.out[1].kind = "header"
            /\ \A i \in 0..(TracksPerSide - 1) :
                  /\ last.out[2 * i + 2].kind = "info"
                  /\ last.out[2 * i + 2].bytes.TrackNum = i
                  /\ last.out[2 * i + 3].kind = "data"
                  /\ last.out[2 * i + 3].bytes =
                        IF i \in LiveTracks(last.pre.allocated)
                        THEN TrackData(last.pre.Tracks, i)
                        ELSE <<[src |-> "e5", from |-> 0,
                                len |-> BytesPerSector * SectorsPerTrack]>>

\* A successful Save of a modified image with a track that has an allocated
\* sector and a track that holds stored bytes but has no allocated sector
C30_Witness ==
    /\ last.op = "Save"
    /\ last.err = nil
    /\ last.pre.Modified
    /\ LiveTracks(last.pre.allocated) # {}
    /\ \E l \in DOMAIN last.pre.Tracks :
          (l \div SectorsPerTrack) \notin LiveTracks(last.pre.allocated)


----------------------------------------------------------------------------
(* Claims on the allocation strategy (SpecAlloc) *)

\* The blocks that start a run of n consecutive free blocks
RunStarts(fb, n) ==
    {s \in 0..(totalBlocks - n) : \A k \in 0..(n - 1) : s + k \in fb}

\* q lists, in ascending order, the Len(q) lowest blocks of fb
LowestOf(q, fb) ==
    /\ \A i \in 1..Len(q) : q[i] \in fb
    /\ \A i \in 1..(Len(q) - 1) : q[i] < q[i + 1]
    /\ \A b \in fb \ SeqRange(q) : \A i \in 1..Len(q) : q[i] < b

\* C31: a successful AllocateFileSpace(size) returns ceil(size/BlockSize)
\* blocks: the lowest run of that many consecutive free blocks when there is
\* one, otherwise the lowest free blocks in ascending order; the returned
\* blocks are not free afterwards and their sectors are allocated.
C31_AllocationStrategy ==
    (last.op = "AllocateFileSpace" /\ last.err = nil)
    => LET n == BlocksFor(last.size)
           runs == RunStarts(last.pre.freeBlocks, n)
       IN /\ Len(last.ret) = n
          /\ IF n > 0 /\ runs # {}
             THEN \A i \in 1..n :
                     last.ret[i] = (CHOOSE s \in runs : \A t \in runs : s <= t) + i - 1
             ELSE LowestOf(last.ret, last.pre.freeBlocks)
          /\ SeqRange(last.ret) \cap freeBlocks = {}
          /\ SectorsOf(SeqRange(last.ret)) \subseteq allocated

\* A successful allocation of several blocks when no run of that many
\* consecutive free blocks existed
C31_Witness ==
    /\ last.op = "AllocateFileSpace"
    /\ last.err = nil
    /\ Len(last.ret) >= 2
    /\ RunStarts(last.pre.freeBlocks, BlocksFor(last.size)) = {}
    /\ last.ret[2] > last.ret[1] + 1


----------------------------------------------------------------------------
(* Searches of the free maps *)

\* An allocated sector does not end the run being counted.
findFreeSectorsStepNoReset(st, alloc, count, i) ==
    IF i \notin alloc
    THEN LET s == IF st.consecutive = 0 THEN i ELSE st.start
             c == st.consecutive + 1
         IN IF c = count
            THEN [consecutive |-> c, start |-> s, ret |-> s, err |-> nil, done |-> TRUE]
            ELSE [st EXCEPT !.consecutive = c, !.start = s]
    ELSE st

\* FindFreeSectors: one iteration, on sector i
findFreeSectorsStep(st, alloc, count, i) ==
    IF i \notin alloc
    THEN LET s == IF st.consecutive = 0 THEN i ELSE st.start
             c == st.consecutive + 1
         IN IF c = count
            THEN [consecutive |-> c, start |-> s, ret |-> s, err |-> nil, done |-> TRUE]
            ELSE [st EXCEPT !.consecutive = c, !.start = s]
    ELSE [st EXCEPT !.consecutive = 0]

RECURSIVE findFreeSectorsLoop(_, _, _, _, _)
findFreeSectorsLoop(st, alloc, count, lo, hi) ==
    IF hi <= lo \/ st.done THEN st
    ELSE IF hi = lo + 1 THEN findFreeSectorsStep(st, alloc, count, lo)
    ELSE With(findFreeSectorsLoop(st, alloc, count, lo, (lo + hi) \div 2), LAMBDA s1 :
            IF s1.done THEN s1
            ELSE findFreeSectorsLoop(s1, alloc, count, (lo + hi) \div 2, hi))

FindFreeSectors(alloc, count) ==
    IF count <= 0 THEN [err |-> "invalid sector count requested", ret |-> 0]
    ELSE IF count > TotalSectors
         THEN [err |-> "requested sector count exceeds disk size", ret |-> 0]
         ELSE With(findFreeSectorsLoop([consecutive |-> 0, start |-> 0, ret |-> 0,
                                        err |-> "not enough contiguous free sectors available",
                                        done |-> FALSE],
                                       alloc, count, 0, TotalSectors), LAMBDA st :
                 [err |-> st.err, ret |-> st.ret])

FindCounts == {0, 1, 2, SectorsPerTrack, TotalSectors - 7, TotalSectors, TotalSectors + 1}

BlockCounts == {1, 2, 3, totalBlocks - 4, totalBlocks - 3, totalBlocks + 1}

InitFind == InitAlloc

DoFindFreeSectors ==
    /\ \E count \in FindCounts :
          \E r \in {FindFreeSectors(allocated, count)} :
          last' = [op |-> "FindFreeSectors", count |-> count, err |-> r.err,
                   ret |-> r.ret, pre |-> Snapshot]
    /\ UNCHANGED <<allocated, freeBlocks, Tracks, steps>>
    /\ DirUnchanged
    /\ ImageUnchanged
    /\ UNCHANGED dc

DoFindContiguousBlocks ==
    /\ \E count \in BlockCounts :
          last' = [op |-> "findContiguousBlocks", count |-> count,
                   ret |-> findContiguousBlocks(freeBlocks, count), pre |-> Snapshot]
    /\ UNCHANGED <<allocated, freeBlocks, Tracks, steps>>
    /\ DirUnchanged
    /\ ImageUnchanged
    /\ UNCHANGED dc

NextFind ==
    \/ DoAllocateSectors
    \/ DoFreeSectors
    \/ DoSetSectorData
    \/ DoAllocateFileSpace
    \/ DoFreeBlocks
    \/ DoFindFreeSectors
    \/ DoFindContiguousBlocks

SpecFind == InitFind /\ [][NextFind]_vars

\* The sectors that start a run of count consecutive free sectors
FreeRunStarts(alloc, count) ==
    {i \in 0..(TotalSectors - count) : SectorRange(i, count) \cap alloc = {}}

\* C33: FindFreeSectors(count), 1 <= count <= totalSectors, returns the
\* smallest i such that the sectors i..i+count-1 are all free, returns an
\* error exactly when there is no such i, and leaves the bitmap as it was.
C33_FindFreeSectorsFirstFit ==
    (/\ last.op = "FindFreeSectors"
     /\ 1 <= last.count
     /\ last.count <= TotalSectors)
    => LET starts == FreeRunStarts(last.pre.allocated, last.count)
       IN /\ (last.err # nil) <=> (starts = {})
          /\ last.err = nil => /\ last.ret \in starts
                               /\ \A i \in starts : last.ret <= i
          /\ allocated = last.pre.allocated

\* A search that had to pass over a free run that was too short
C33_Witness ==
    /\ last.op = "FindFreeSectors"
    /\ last.err = nil
    /\ last.count >= 2
    /\ \E i \in 0..(last.ret - 1) : i \notin last.pre.allocated
    /\ last.pre.allocated # {}

\* C34: findContiguousBlocks(count), count >= 1, returns -1 or a start s
\* such that the blocks s..s+count-1 all exist and are all free.
C34_FindContiguousBlocksFree ==
    (last.op = "findContiguousBlocks" /\ last.count >= 1)
    => \/ last.ret = -1
       \/ /\ last.ret >= 0
          /\ last.ret + last.count - 1 < totalBlocks
          /\ \A b \in last.ret..(last.ret + last.count - 1) : b \in last.pre.freeBlocks

\* A search that had to pass over a free run that was too short
C34_Witness ==
    /\ last.op = "findContiguousBlocks"
    /\ last.ret >= 0
    /\ last.count >= 2
    /\ \E b \in 0..(last.ret - 1) : b \in last.pre.freeBlocks


----------------------------------------------------------------------------
(* Block level: sequences of AllocateFileSpace and FreeBlocks alone, with the
   history of which blocks the allocations hold *)

MaxBlockSteps == 4

InitBlocks == InitAlloc

\* history: the blocks that successful allocations returned and that were
\* not passed to FreeBlocks since, and the blocks that were
Held == IF last.op = "none" THEN {} ELSE last.held

Released == IF last.op = "none" THEN {} ELSE last.released

DoAllocateFileSpaceOnly ==
    /\ steps < MaxBlockSteps
    /\ \E size \in AllocSizes :
          \E r \in {AllocateFileSpace(freeBlocks, allocated, size)} :
          /\ freeBlocks' = r.freeBlocks
          /\ allocated' = r.allocated
          /\ last' = [op |-> "AllocateFileSpace", size |-> size, err |-> r.err,
                      ret |-> r.blocks, pre |-> Snapshot,
                      heldBefore |-> Held, releasedBefore |-> Released,
                      held |-> IF r.err = nil THEN Held \cup SeqRange(r.blocks) ELSE Held,
                      released |-> IF r.err = nil THEN Released \ SeqRange(r.blocks)
                                   ELSE Released]
    /\ steps' = steps + 1
    /\ UNCHANGED Tracks
    /\ DirUnchanged
    /\ ImageUnchanged
    /\ UNCHANGED dc

DoFreeBlocksOnly ==
    /\ steps < MaxBlockSteps
    /\ \E blocks \in BlockLists \cup Returned :
          \E r \in {FreeBlocks(freeBlocks, allocated, blocks)} :
          /\ freeBlocks' = r.freeBlocks
          /\ allocated' = r.allocated
          /\ last' = [op |-> "FreeBlocks", blocks |-> blocks, err |-> r.err,
                      pre |-> Snapshot,
                      held |-> Held \ SeqRange(blocks),
                      released |-> Released \cup (Held \cap SeqRange(blocks))]
    /\ steps' = steps + 1
    /\ UNCHANGED Tracks
    /\ DirUnchanged
    /\ ImageUnchanged
    /\ UNCHANGED dc

NextBlocks == DoAllocateFileSpaceOnly \/ DoFreeBlocksOnly

SpecBlocks == InitBlocks /\ [][NextBlocks]_vars

\* C32: in a sequence of AllocateFileSpace and FreeBlocks calls, the blocks
\* one successful AllocateFileSpace returns are pairwise distinct, and none
\* of them is a block that an earlier successful AllocateFileSpace returned
\* and that was not passed to FreeBlocks since.
C32_NoBlockHeldTwice ==
    (last.op = "AllocateFileSpace" /\ last.err = nil)
    => /\ \A i, j \in 1..Len(last.ret) : i # j => last.ret[i] # last.ret[j]
       /\ SeqRange(last.ret) \cap last.heldBefore = {}

\* A successful allocation while earlier allocations hold blocks, which
\* returns a block that an earlier allocation held and FreeBlocks released
C32_Witness ==
    /\ last.op = "AllocateFileSpace"
    /\ last.err = nil
    /\ last.heldBefore # {}
    /\ SeqRange(last.ret) \cap last.releasedBefore # {}


\* C35: the FileAllocation made for the standard image manages
\* (tracks * sides * sectorsPerTrack) / sectorsPerBlock = 180 blocks, block
\* i starting at sector 2*i, the first ReservedBlocks+BlocksPerDir blocks
\* not free and every other block free.
C35_NewFileAllocationBlocks ==
    last.op = "none"
    => /\ totalBlocks = (TracksPerSide * SidesPerDisk * SectorsPerTrack) \div sectorsPerBlock
       /\ \A i \in 0..(totalBlocks - 1) : blockMap(i) = 2 * i
       /\ freeBlocks =
             (0..((TracksPerSide * SidesPerDisk * SectorsPerTrack) \div sectorsPerBlock - 1))
                \ SystemBlocks


----------------------------------------------------------------------------
(* Extension level: a file is opened and writes extend it *)

ExtendPayloads == {[src |-> "a", from |-> 0, len |-> 0],
                   [src |-> "a", from |-> 0, len |-> BytesPerSector],
                   [src |-> "b", from |-> 0, len |-> BlockSize]}

ExtendOffsets == {0, BytesPerSector, BlockSize, BlockSize + BytesPerSector, 2 * BlockSize}

DoWriteAtExtending ==
    /\ steps < MaxFileSteps
    /\ file.open
    /\ \E p \in ExtendPayloads, off \in ExtendOffsets :
          \E r \in {WriteAt(file, freeBlocks, allocated, Tracks, p, off)} :
          /\ file' = r.file
          /\ freeBlocks' = r.freeBlocks
          /\ allocated' = r.allocated
          /\ Tracks' = r.Tracks
          /\ Wrote(r.n > 0)
          /\ wlog' = Logged(wlog, r, p, off)
          /\ last' = [op |-> "WriteAt", p |-> p, off |-> off, n |-> r.n, err |-> r.err,
                      \* history: every write since the file was opened succeeded
                      clean |-> /\ r.err = nil
                                /\ IF last.op = "WriteAt" THEN last.clean
                                   ELSE last.op = "OpenFile" /\ last.err = nil,
                      pre |-> [freeBlocks |-> freeBlocks, size |-> file.size, file |-> file,
                               allocated |-> allocated, Tracks |-> Tracks]]
    /\ steps' = steps + 1
    /\ UNCHANGED <<Entries, modified>>
    /\ UNCHANGED dc

NextExtend == DoOpenFile \/ DoWriteAtExtending

SpecExtend == InitFile /\ [][NextExtend]_vars

\* C36: a WriteAt(p, off) that extends the file allocates
\* max(0, ceil((off+len(p))/BlockSize) - len(blocks)) blocks, so that after
\* successful writes the handle holds ceil(size/BlockSize) blocks.
C36_WriteAtAllocatesNeededBlocks ==
    (last.op = "WriteAt" /\ last.clean)
    => LET endPos == last.off + last.p.len
           had == Len(last.pre.file.blocks)
           needed == IF BlocksFor(endPos) > had THEN BlocksFor(endPos) - had ELSE 0
       IN /\ endPos > last.pre.size => Len(file.blocks) = had + needed
          /\ Len(file.blocks) = BlocksFor(file.size)


----------------------------------------------------------------------------
(* Loading an image *)

validateHeader(h) ==
    IF h.Signature # DiskSignature THEN "invalid disk image signature"
    ELSE IF h.TracksNum # TracksPerSide THEN "invalid number of tracks for +3 format"
    ELSE IF h.SidesNum # SidesPerDisk THEN "invalid number of sides for +3 format"
    ELSE IF h.TrackSize # BytesPerSector * SectorsPerTrack
         THEN "invalid track size for +3 format"
         ELSE nil

validateSectorInfo(info, track, side) ==
    IF info.Track # track THEN "sector track number mismatch"
    ELSE IF info.Side # side THEN "sector side number mismatch"
    ELSE IF info.SectorSize # 2 THEN "invalid sector size in sector info"
    ELSE IF info.DataLength # BytesPerSector THEN "invalid sector data length"
    ELSE nil

validateTrackInfo(info, track, side) ==
    LET bad == {i \in DOMAIN info.SectorInfo :
                   validateSectorInfo(info.SectorInfo[i], track, side) # nil}
    IN IF info.Signature # TrackSignature THEN "invalid track signature"
       ELSE IF info.TrackNum # track THEN "track number mismatch"
       ELSE IF info.SideNum # side THEN "side number mismatch"
       ELSE IF info.SectorSize # 2 THEN "unsupported sector size"
       ELSE IF info.SectorsNum # SectorsPerTrack THEN "invalid sectors per track"
       ELSE IF bad # {}
            THEN validateSectorInfo(info.SectorInfo[CHOOSE i \in bad : \A j \in bad : i <= j],
                                    track, side)
            ELSE nil

\* A piece holds a byte that is not 0: the buffers of the writers hold no
\* zero byte, a piece of the zero buffer holds nothing else
NonZero(piece) == piece.len > 0 /\ piece.src # "zero"

\* hasData of Load: the track data holds a byte that is not 0
HasData(bytes) == \E k \in 1..Len(bytes) : NonZero(bytes[k])

\* Sector s (from 1) of the data of a track, which is nine sectors or one
\* piece of equal bytes
SectorOfTrack(bytes, s) ==
    IF Len(bytes) = SectorsPerTrack THEN bytes[s]
    ELSE Slice(bytes[1], (s - 1) * BytesPerSector, s * BytesPerSector)

\* The stream is read in the pieces that Save wrote it in: the header, then
\* for each track its information block and its data, each read taking as
\* many bytes as the write of the same structure gave.
\* Load: one turn of the loop over the tracks; st = [err, done, allocated]
loadTrack(st, h, stream, i) ==
    LET track == i % h.TracksNum
        side == i \div h.TracksNum
        b == GetTrackBounds(track, side)
    IN IF 2 * i + 2 > Len(stream)
       THEN [st EXCEPT !.err = "failed to read track info", !.done = TRUE]
       ELSE IF validateTrackInfo(stream[2 * i + 2].bytes, track, side) # nil
       THEN [st EXCEPT !.err = validateTrackInfo(stream[2 * i + 2].bytes, track, side),
                       !.done = TRUE]
       ELSE IF 2 * i + 3 > Len(stream)
       THEN [st EXCEPT !.err = "failed to read track data", !.done = TRUE]
       ELSE IF b.err # nil THEN [st EXCEPT !.err = b.err, !.done = TRUE]
       ELSE IF HasData(stream[2 * i + 3].bytes)
            THEN With(AllocateSectors(st.allocated, b.start, b.end - b.start + 1),
                      LAMBDA a :
                    IF a.err # nil THEN [st EXCEPT !.err = a.err, !.done = TRUE]
                    ELSE [st EXCEPT !.allocated = a.allocated])
            ELSE st

RECURSIVE loadTracks(_, _, _, _, _)
loadTracks(st, h, stream, lo, hi) ==
    IF hi <= lo \/ st.done THEN st
    ELSE IF hi = lo + 1 THEN loadTrack(st, h, stream, lo)
    ELSE With(loadTracks(st, h, stream, lo, (lo + hi) \div 2), LAMBDA s1 :
            IF s1.done THEN s1 ELSE loadTracks(s1, h, stream, (lo + hi) \div 2, hi))

\* di.Tracks of the loaded image: track i holds the data read for it
LoadedTracks(stream) ==
    LET content(l) == SectorOfTrack(stream[2 * (l \div SectorsPerTrack) + 3].bytes,
                                    (l % SectorsPerTrack) + 1)
    IN [l \in {k \in 0..(TotalSectors - 1) : content(k) # ZeroSector} |-> content(l)]

\* Load: ok is FALSE when it returns no image
Load(stream) ==
    LET none == [Header |-> NewDiskHeader, allocated |-> {}, Tracks |-> <<>>] IN
    IF stream = <<>>
    THEN [ok |-> FALSE, err |-> "failed to read disk header"] @@ none
    ELSE IF validateHeader(stream[1].bytes) # nil
         THEN [ok |-> FALSE, err |-> validateHeader(stream[1].bytes)] @@ none
         ELSE With(loadTracks([err |-> nil, done |-> FALSE,
                               allocated |-> newSectorAllocation],
                              stream[1].bytes, stream, 0,
                              (stream[1].bytes.TracksNum * stream[1].bytes.SidesNum) % Uint8),
                   LAMBDA st :
                 IF st.err # nil THEN [ok |-> FALSE, err |-> st.err] @@ none
                 ELSE [ok |-> TRUE, err |-> nil, Header |-> stream[1].bytes,
                       allocated |-> st.allocated, Tracks |-> LoadedTracks(stream)])

----------------------------------------------------------------------------
(* Reload level: sectors are written and freed, the image is saved and the
   saved bytes are loaded; the loaded image takes the place of the saved one.
   The directory and the block map are not part of this level. *)

InitReload == InitAlloc

\* The saved bytes, whole or cut after the first track information block
Cuts == {0, 2}

DoLoad ==
    /\ steps < MaxImageSteps
    /\ last.op = "Save"
    /\ \E stream \in {last.out} \cup {SubSeq(last.out, 1, Min(n, Len(last.out))) : n \in Cuts} :
          \E r \in {Load(stream)} :
          /\ allocated' = IF r.ok THEN r.allocated ELSE allocated
          /\ Tracks' = IF r.ok THEN r.Tracks ELSE Tracks
          /\ Header' = IF r.ok THEN r.Header ELSE Header
          /\ Modified' = IF r.ok THEN FALSE ELSE Modified
          /\ last' = [op |-> "Load", err |-> r.err, stream |-> stream,
                      saved |-> last.pre, saveErr |-> last.err]
    /\ steps' = steps + 1
    /\ UNCHANGED <<freeBlocks, dc>>
    /\ DirUnchanged

NextReload ==
    \/ DoAllocateSectors
    \/ DoSetSectorData
    \/ DoFreeSectors
    \/ DoSetTracksNum
    \/ DoSave
    \/ DoLoad

SpecReload == InitReload /\ [][NextReload]_vars

\* C37: after a Load, the nine sectors of a track are allocated when the
\* data of the track holds a byte that is not 0 and free otherwise; and the
\* image loaded from the bytes saved from a freshly created image has as many
\* free sectors as the image that was saved.
C37_LoadRebuildsAllocation ==
    (last.op = "Load" /\ last.err = nil)
    => /\ \A i \in 0..(TracksPerSide - 1) :
             IF \E k \in 1..Len(last.stream[2 * i + 3].bytes) :
                   /\ last.stream[2 * i + 3].bytes[k].len > 0
                   /\ last.stream[2 * i + 3].bytes[k].src # "zero"
             THEN SectorRange(i * SectorsPerTrack, SectorsPerTrack) \subseteq allocated
             ELSE SectorRange(i * SectorsPerTrack, SectorsPerTrack) \cap allocated = {}
       /\ FreshImage(last.saved)
          => GetFreeSpace(allocated) = GetFreeSpace(last.saved.allocated)

----------------------------------------------------------------------------
(* The directory table on the directory sectors *)

\* binary.Write(buf, binary.LittleEndian, entry): every field of
\* DirectoryEntry in declaration order, LogicalSize low byte first
binaryWrite(entry) ==
    <<entry.Status>> \o entry.Name \o entry.Extension
        \o <<entry.Extent, entry.Reserved1, entry.Reserved2, entry.RecordCount>>
        \o entry.AllocationBlocks
        \o <<entry.FirstRecord, entry.LogicalSize % 256, entry.LogicalSize \div 256>>

\* The number of bytes binary.Read asks its reader for: the encoded size of
\* the struct
EncodedSize == Len(binaryWrite(ZeroEntry))

\* binary.Read(buf, binary.LittleEndian, entry): io.ReadFull of the encoded
\* size, then the fields in declaration order
binaryRead(data) ==
    IF Len(data) = 0 THEN [err |-> "EOF", entry |-> ZeroEntry]
    ELSE IF Len(data) < EncodedSize
         THEN [err |-> "unexpected EOF", entry |-> ZeroEntry]
         ELSE [err |-> nil,
               entry |-> [Status |-> data[1], Name |-> SubSeq(data, 2, 9),
                          Extension |-> SubSeq(data, 10, 12), Extent |-> data[13],
                          Reserved1 |-> data[14], Reserved2 |-> data[15],
                          RecordCount |-> data[16],
                          AllocationBlocks |-> SubSeq(data, 17, 32),
                          FirstRecord |-> data[33],
                          LogicalSize |-> data[34] + 256 * data[35]]]

\* copy(dst[offset:], src): as many bytes as both sides hold
copyAt(dst, offset, src) ==
    [p \in 1..Len(dst) |->
        IF p > offset /\ p - offset <= Len(src) THEN src[p - offset] ELSE dst[p]]

\* The loop of Directory.write over the slots lo..hi, in order
RECURSIVE encodeEntries(_, _, _, _)
encodeEntries(dirData, entries, lo, hi) ==
    IF lo > hi THEN dirData
    ELSE IF lo = hi
         THEN copyAt(dirData, lo * DirectoryEntrySize, binaryWrite(EntryAt(entries, lo)))
         ELSE With(encodeEntries(dirData, entries, lo, (lo + hi) \div 2),
                   LAMBDA half : encodeEntries(half, entries, (lo + hi) \div 2 + 1, hi))

\* A sector of bytes as Tracks keeps it
SectorOf(bytes) ==
    IF \A i \in 1..Len(bytes) : bytes[i] = 0 THEN ZeroSector
    ELSE IF \A i \in 1..Len(bytes) : bytes[i] = FillerByte THEN emptyData
    ELSE [src |-> "dir", from |-> 0, len |-> Len(bytes), bytes |-> bytes]

\* The bytes of a sector Tracks keeps
BytesOf(data) ==
    CASE data.src = "dir" -> data.bytes
      [] data.src = "zero" -> [i \in 1..data.len |-> 0]
      [] data.src = "e5" -> [i \in 1..data.len |-> FillerByte]

\* make([]byte, BytesPerSector) with dirData[offset:offset+remaining] copied in
sectorPiece(dirData, offset) ==
    [i \in 1..BytesPerSector |-> IF offset + i <= Len(dirData) THEN dirData[offset + i] ELSE 0]

RECURSIVE writeSectorsLoop(_, _, _, _)
writeSectorsLoop(st, dirData, sector, n) ==
    IF sector >= n \/ st.err # nil THEN st
    ELSE With(SetSectorData(st.allocated, st.Tracks, DirectoryTrack,
                            sector + DirectorySector, 0,
                            SectorOf(sectorPiece(dirData, sector * BytesPerSector))),
              LAMBDA r :
                writeSectorsLoop(
                    [err |-> IF r.err # nil THEN "failed to write directory sector" ELSE nil,
                     allocated |-> r.allocated, Tracks |-> r.Tracks,
                     wrote |-> st.wrote \/ r.err = nil],
                    dirData, sector + 1, n))

writeDirectorySectors(alloc, tracks, dirData) ==
    IF (Len(dirData) + BytesPerSector - 1) \div BytesPerSector > directorySectors
    THEN [err |-> "directory data exceeds maximum size", allocated |-> alloc,
          Tracks |-> tracks, wrote |-> FALSE]
    ELSE writeSectorsLoop([err |-> nil, allocated |-> alloc, Tracks |-> tracks,
                           wrote |-> FALSE],
                          dirData, 0, (Len(dirData) + BytesPerSector - 1) \div BytesPerSector)

\* Directory.write
write(alloc, tracks, entries, mod) ==
    IF ~mod
    THEN [err |-> nil, allocated |-> alloc, Tracks |-> tracks, wrote |-> FALSE,
          modified |-> mod]
    ELSE With(writeDirectorySectors(alloc, tracks,
                  encodeEntries(Zeros(MaxDirectoryEntries * DirectoryEntrySize), entries,
                                0, MaxDirectoryEntries - 1)),
              LAMBDA w : [err |-> w.err, allocated |-> w.allocated, Tracks |-> w.Tracks,
                          wrote |-> w.wrote, modified |-> w.err # nil])

RECURSIVE readSectorsLoop(_, _, _, _)
readSectorsLoop(st, alloc, tracks, sector) ==
    IF sector >= directorySectors \/ st.err # nil THEN st
    ELSE With(GetSectorData(alloc, tracks, DirectoryTrack, sector + DirectorySector, 0),
              LAMBDA r :
                readSectorsLoop(
                    IF r.err # nil
                    THEN [err |-> "failed to read directory sector", dirData |-> <<>>]
                    ELSE [err |-> nil,
                          dirData |-> copyAt(st.dirData, sector * BytesPerSector,
                                             BytesOf(r.data))],
                    alloc, tracks, sector + 1))

readDirectorySectors(alloc, tracks) ==
    readSectorsLoop([err |-> nil, dirData |-> Zeros(directorySectors * BytesPerSector)],
                    alloc, tracks, 0)

\* The parsing loop of readDirectory over the slots lo..hi; at is the slot
\* whose parsing failed
parseEntry(st, dirData, i) ==
    IF st.err # nil THEN st
    ELSE IF i * DirectoryEntrySize + DirectoryEntrySize > Len(dirData)
         THEN [err |-> "directory data truncated", Entries |-> <<>>, at |-> i]
         ELSE With(binaryRead(SubSeq(dirData, i * DirectoryEntrySize + 1,
                                     i * DirectoryEntrySize + DirectoryEntrySize)),
                   LAMBDA r :
                     IF r.err # nil
                     THEN [err |-> "error parsing directory entry: " \o r.err,
                           Entries |-> <<>>, at |-> i]
                     ELSE [err |-> nil, Entries |-> PutEntry(st.Entries, i, r.entry),
                           at |-> -1])

RECURSIVE parseEntries(_, _, _, _)
parseEntries(st, dirData, lo, hi) ==
    IF lo > hi \/ st.err # nil THEN st
    ELSE IF lo = hi THEN parseEntry(st, dirData, lo)
         ELSE With(parseEntries(st, dirData, lo, (lo + hi) \div 2),
                   LAMBDA half : parseEntries(half, dirData, (lo + hi) \div 2 + 1, hi))

readDirectory(alloc, tracks) ==
    With(readDirectorySectors(alloc, tracks),
         LAMBDA d :
           IF d.err # nil THEN [err |-> d.err, Entries |-> <<>>, at |-> -1]
           ELSE parseEntries([err |-> nil, Entries |-> NewDirectory, at |-> -1],
                             d.dirData, 0, MaxDirectoryEntries - 1))

(* Directory table level: the directory of an image edited, written to the
   directory sectors and read back *)

\* dir.write() on the directory the client holds
DoDirectoryWrite ==
    /\ steps < MaxDirSteps
    /\ \E r \in {write(allocated, Tracks, Entries, modified)} :
          /\ allocated' = r.allocated
          /\ Tracks' = r.Tracks
          /\ modified' = r.modified
          /\ Wrote(r.wrote)
          /\ last' = [op |-> "write", err |-> r.err, encoded |-> modified,
                      pre |-> [Entries |-> Entries]]
    /\ steps' = steps + 1
    /\ UNCHANGED <<freeBlocks, Entries, file, wlog, dc>>

\* di.readDirectory(); written: the call before it was a write that encoded
\* the table and succeeded
DoReadDirectory ==
    /\ steps < MaxDirSteps
    /\ \E r \in {readDirectory(allocated, Tracks)} :
          last' = [op |-> "readDirectory", err |-> r.err, Entries |-> r.Entries,
                   at |-> r.at,
                   written |-> last.op = "write" /\ last.err = nil /\ last.encoded]
    /\ steps' = steps + 1
    /\ DiskUnchanged
    /\ UNCHANGED <<Entries, modified, dc>>
    /\ ImageUnchanged

NextTable ==
    \/ DoAddFile
    \/ DoDeleteFile
    \/ DoDirectoryWrite
    \/ DoReadDirectory

SpecTable == InitDir /\ [][NextTable]_vars

\* C38: an entry serializes to exactly DirectoryEntrySize bytes, and a
\* directory table written to the directory sectors is read back by
\* readDirectory without error, every slot equal field by field to the entry
\* written.
C38_DirectoryRoundTrip ==
    /\ EncodedSize = DirectoryEntrySize
    /\ (last.op = "readDirectory" /\ last.written)
          => /\ last.err = nil
             /\ \A i \in Slots : EntryAt(last.Entries, i) = EntryAt(Entries, i)


----------------------------------------------------------------------------
(* Whole tracks *)

\* The sectors of a buffer of one track's length, as Tracks keeps them
TrackPieces(data) ==
    [s \in 0..(SectorsPerTrack - 1) |->
        Slice(data, s * BytesPerSector, (s + 1) * BytesPerSector)]

\* di.Tracks[trackIdx] as the sectors it holds
TrackBuffer(tracks, trackIdx) ==
    [s \in 0..(SectorsPerTrack - 1) |-> SectorContent(tracks, trackIdx * SectorsPerTrack + s)]

\* copy(di.Tracks[trackIdx], data)
RECURSIVE copyTrack(_, _, _, _)
copyTrack(tracks, trackIdx, data, s) ==
    IF s >= SectorsPerTrack THEN tracks
    ELSE copyTrack(PutSector(tracks, trackIdx * SectorsPerTrack + s, TrackPieces(data)[s]),
                   trackIdx, data, s + 1)

\* trackIdx is what PhysicalToLinear returns: the linear number of the
\* track's first sector
SetTrackData(h, alloc, tracks, track, side, data) ==
    IF data.len # h.TrackSize
    THEN [err |-> "invalid track data size", allocated |-> alloc, Tracks |-> tracks,
          stored |-> FALSE]
    ELSE With(PhysicalToLinear(track, 0, side),
              LAMBDA l :
                IF l.err # nil
                THEN [err |-> l.err, allocated |-> alloc, Tracks |-> tracks,
                      stored |-> FALSE]
                ELSE IF l.linear >= NumTracks
                     THEN [err |-> "track index out of range", allocated |-> alloc,
                           Tracks |-> tracks, stored |-> FALSE]
                     ELSE With(GetTrackBounds(track, side),
                               LAMBDA b :
                                 IF b.err # nil
                                 THEN [err |-> b.err, allocated |-> alloc,
                                       Tracks |-> copyTrack(tracks, l.linear, data, 0),
                                       stored |-> TRUE]
                                 ELSE With(AllocateSectors(alloc, b.start, b.end - b.start + 1),
                                           LAMBDA a :
                                             [err |-> a.err, allocated |-> a.allocated,
                                              Tracks |-> copyTrack(tracks, l.linear, data, 0),
                                              stored |-> TRUE])))

GetTrackData(tracks, track, side) ==
    With(PhysicalToLinear(track, 0, side),
         LAMBDA l :
           IF l.err # nil THEN [err |-> l.err, data |-> <<>>]
           ELSE IF l.linear >= NumTracks
                THEN [err |-> "track index out of range", data |-> <<>>]
                ELSE [err |-> nil, data |-> TrackBuffer(tracks, l.linear)])

(* Track level: whole tracks written to and read from a new image *)

TrackNumbers == {-1, 0, 1, 4, 5, TracksPerSide - 1, TracksPerSide, TracksPerSide + 1}
TrackBuffers == {[src |-> "a", from |-> 0, len |-> TrackLength],
                 [src |-> "b", from |-> 0, len |-> TrackLength],
                 [src |-> "a", from |-> 0, len |-> BytesPerSector]}

DoSetTrackData ==
    /\ steps < MaxSteps
    /\ \E track \in TrackNumbers, data \in TrackBuffers :
          \E r \in {SetTrackData(Header, allocated, Tracks, track, 0, data)} :
          /\ allocated' = r.allocated
          /\ Tracks' = r.Tracks
          /\ Wrote(r.stored)
          /\ last' = [op |-> "SetTrackData", track |-> track, data |-> data,
                      err |-> r.err, pre |-> Snapshot]
    /\ steps' = steps + 1
    /\ UNCHANGED freeBlocks
    /\ DirUnchanged
    /\ UNCHANGED dc

\* prev: the call before this one, when it was a SetTrackData
DoGetTrackData ==
    /\ steps < MaxSteps
    /\ \E track \in TrackNumbers :
          \E r \in {GetTrackData(Tracks, track, 0)} :
          last' = [op |-> "GetTrackData", track |-> track, err |-> r.err, data |-> r.data,
                   prev |-> IF last.op = "SetTrackData"
                            THEN [op |-> last.op, track |-> last.track, data |-> last.data,
                                  err |-> last.err, pre |-> last.pre]
                            ELSE NoOp]
    /\ steps' = steps + 1
    /\ UNCHANGED <<allocated, freeBlocks, Tracks>>
    /\ DirUnchanged
    /\ ImageUnchanged
    /\ UNCHANGED dc

NextTrack ==
    \/ DoSetTrackData
    \/ DoGetTrackData

SpecTrack == InitAlloc /\ [][NextTrack]_vars

\* The image as NewDiskImage leaves it
FreshTracks(s) == s.allocated = newSectorAllocation /\ s.Tracks = <<>>

\* C39: on a new image SetTrackData(t, 0, data) with t in 0..39 and data of
\* one track's length succeeds, puts data in the buffer of track t and
\* changes no other buffer, and marks the nine sectors of track t allocated;
\* GetTrackData(t, 0) right after it returns data; both calls fail for a
\* track outside 0..39.
C39_TrackDataRoundTrip ==
    /\ (/\ last.op = "SetTrackData"
        /\ FreshTracks(last.pre)
        /\ last.track \in 0..(TracksPerSide - 1)
        /\ last.data.len = TrackLength)
          => /\ last.err = nil
             /\ TrackBuffer(Tracks, last.track) = TrackPieces(last.data)
             /\ \A k \in 0..(NumTracks - 1) \ {last.track} :
                    TrackBuffer(Tracks, k) = TrackBuffer(last.pre.Tracks, k)
             /\ allocated = (last.track * SectorsPerTrack)
                                ..(last.track * SectorsPerTrack + SectorsPerTrack - 1)
    /\ (/\ last.op = "GetTrackData"
        /\ last.prev.op = "SetTrackData"
        /\ FreshTracks(last.prev.pre)
        /\ last.prev.track \in 0..(TracksPerSide - 1)
        /\ last.prev.data.len = TrackLength
        /\ last.track = last.prev.track)
          => /\ last.err = nil
             /\ last.data = TrackPieces(last.prev.data)
    /\ (/\ last.op \in {"SetTrackData", "GetTrackData"}
        /\ last.track \notin 0..(TracksPerSide - 1))
          => last.err # nil


----------------------------------------------------------------------------
(* A new header, validated as constructed, and copies of it with one field
   changed *)

N_INVALID == <<73, 78, 86, 65, 76, 73, 68>>            \* "INVALID"
N_plus3dos == <<112, 108, 117, 115, 51, 100, 111, 115>> \* "plus3dos"

\* copy(badHeader.Signature[:], str)
CopySignature(h, str) ==
    [h EXCEPT !.Signature =
        [i \in 1..Len(h.Signature) |-> IF i <= Len(str) THEN str[i] ELSE h.Signature[i]]]

\* The copies of h with a signature that is not HeaderSignature, a soft-EOF
\* byte that is not HeaderSoftEOF, or a file-type byte above FileTypeCode
BadCopies(h) ==
    {[field |-> "Signature", header |-> CopySignature(h, str)] :
        str \in {N_INVALID, N_plus3dos}}
    \cup {[field |-> "SoftEOF", header |-> [h EXCEPT !.SoftEOF = b]] :
            b \in (0..(Uint8 - 1)) \ {HeaderSoftEOF}}
    \cup {[field |-> "FileType", header |-> [h EXCEPT !.HeaderData[1] = b]] :
            b \in (FileTypeCode + 1)..(Uint8 - 1)}

\* header := NewPlus3DosHeader(); header.Validate()
DoNewHeader ==
    /\ last.op = "none"
    /\ \E h \in {NewPlus3DosHeader} :
          last' = [op |-> "NewPlus3DosHeader", header |-> h, err |-> Validate(h)]
    /\ UNCHANGED <<allocated, freeBlocks, Tracks, Entries, modified, file, wlog, steps>>
    /\ ImageUnchanged
    /\ UNCHANGED dc

\* badHeader := *header with one field changed; badHeader.Validate()
DoValidateCopy ==
    /\ last.op = "NewPlus3DosHeader"
    /\ \E c \in BadCopies(last.header) :
          last' = [op |-> "ValidateCopy", field |-> c.field, of |-> last.header,
                   header |-> c.header, err |-> Validate(c.header)]
    /\ UNCHANGED <<allocated, freeBlocks, Tracks, Entries, modified, file, wlog, steps>>
    /\ ImageUnchanged
    /\ UNCHANGED dc

NextNewHeader == DoNewHeader \/ DoValidateCopy

SpecNewHeader == InitHeader /\ [][NextNewHeader]_vars

\* C40: the header NewPlus3DosHeader returns passes Validate before any
\* UpdateChecksum; a copy of it with a wrong signature, a wrong soft-EOF byte
\* or a file-type byte outside 0..3 fails Validate.
C40_NewHeaderValidates ==
    /\ last.op = "NewPlus3DosHeader" => last.err = nil
    /\ last.op = "ValidateCopy" => last.err # nil

============================================================================
